---- MODULE Spec2Model ----
(***************************************************************************)
(* Verification model of the OpenLibreChat maintenance scripts.            *)
(*                                                                         *)
(* Independent families of command-line tools are modelled, each with its  *)
(* own specification:                                                      *)
(*   SpecRun      the fan-out orchestrators bun-install-all, bun-build-all *)
(*                and bun-test-all (worker pool / batches of children);    *)
(*   SpecHang     the same with children that never exit, under fairness;  *)
(*   SpecEnv      update-env (placeholder substitution in .env files);     *)
(*   SpecRewrite  the file-rewriting scripts and their write decision;     *)
(*   SpecDeps     update-packagejson;                                      *)
(*   SpecCodemod  the jscodeshift transformers, applied run after run;     *)
(*   SpecPipe     run-codemods, docker-build and docker-push;              *)
(*   SpecCompose  the docker-compose transformer and its backups;          *)
(*   SpecSync     the revisions of sync-upstream.sh.                       *)
(* A specification leaves the variables of the other families idle.        *)
(***************************************************************************)
EXTENDS Integers, Sequences, FiniteSets, TLC

\* ---------------------------------------------------------------- bounds
MaxUnits == 3      \* most units (packages / workspaces) discovered in a run
MaxK     == 3      \* largest concurrency limit tried
MaxLines == 2      \* most lines in the first input .env file
MaxWords == 3      \* most words in a hook or shell script handed to a rewrite
MaxFiles == 2      \* most files a rewriting script visits in one run
MaxShLines == 2    \* most lines in a utils/docker shell script
MaxElems == 2      \* most elements in an HTML document
MaxDeps  == 2      \* most entries in a manifest's dependencies
MaxMods  == 3      \* most codemod files discovered under codemods/
MaxDepth == 3      \* most JSX elements wrapped around <App /> in the entrypoint
MaxStmts == 2      \* most statements in a source file handed to a codemod
MaxApps  == 3      \* most times a codemod is applied to the same file
MaxRuns  == 2      \* most runs of transform-docker-compose over the same directory

\* ------------------------------------------------------------- variables
VARIABLES
  script,     \* which orchestrator runs: "install", "build" or "test"
  N,          \* number of discovered units (pkgFiles / workspaces)
  K,          \* concurrency / options.jobs
  dryRun,     \* --dry-run (install, build)
  hasBun,     \* whether `which bun` succeeds
  kind,       \* per unit: "cmd", "skip" (no entrypoint), "bad" (unparsable manifest)
              \* or "hang" (a command whose child process never exits)
  code,       \* per unit: the exit code its child process ends with
  mainpc,     \* position of main(): "start", "run", "loop", "batch", "exited"
  idx,        \* runConcurrent's idx / the batch loop's i
  wpc,        \* per worker: "loop", "prep", "await", "done"
  wtask,      \* per worker: the unit it is working on (0 = none)
  ustate,     \* per unit: "new", "running", "exited", "awaited", "skipped"
  spawns,     \* per unit: how many times Bun.spawn was called for it
  failed,     \* units reported as failed on the console / in failures
  hadError,   \* bun-install-all's hadError flag
  exitStatus  \* process exit status, -1 while the process is alive

VARIABLES
  eArgs,      \* update-env: Bun.argv as parsed (flags, raw --fallback text, paths)
  eEnv,       \* update-env: Bun.env restricted to the keys of interest
  fs,         \* update-env: file system, path -> content (sequence of lines)
  epc,        \* update-env: position of main()
  eMerged,    \* update-env: merged
  eUpdated,   \* update-env: updatedLines
  eUpdates,   \* update-env: updates
  eMissing,   \* update-env: missing
  eWarned,    \* update-env: keys a missing-variable warning was printed for
  eStdout,    \* update-env: the result printed on stdout
  eWrites,    \* update-env: paths handed to Bun.write, in order
  eExit       \* update-env: process exit status, -1 while alive

VARIABLES
  rScript,    \* rewriting script: "utils", "husky", "docker", "html", "package", "tsconfig"
  rDry,       \* transform-husky's --dry-run
  rIdx,       \* number of the file being visited
  rpc,        \* "read" before a file is processed, "visited" after, "done" at the end
  rName,      \* "index" if the visited path ends with client/index.html, else "other"
  rDisk,      \* content of the visited file on disk
  rOrig,      \* content read from the file (original / raw / src / text)
  rOut,       \* output computed for the file, NoOutput if the transform gave none
  rWrote,     \* whether Bun.write / Bun.writeFile was called on the file
  rBackup,    \* content of the .bak file transform-utils wrote, NoFile if none
  rMsg,       \* message reported for the file
  rTotal,     \* how many files the scan discovers
  rBad,       \* how many visited files were skipped as missing or unparsable
  rExit       \* exit status of the script, -1 while it runs

VARIABLES
  dScript,    \* update-packagejson variant: "ensureA", "ensureB" or "sync"
  dDisk,      \* manifests on disk, path -> text (NoFile if missing)
  dBefore,    \* the manifests as they were before the first run
  dAfter,     \* the manifests as the first run left them (<<>> during the first run)
  dRun,       \* 1 during the first run of the script, 2 during the second
  dCall,      \* number of the next ensureDeps / syncPackage call of the run
  dpc,        \* "run" while the script runs, "exited" after
  dExit       \* exit status of the run, -1 while it runs

VARIABLES
  mScript,    \* codemod: "env", "telemetry", "pluginloader", "prettier", "dockerfile",
              \* "pluginserver", "updatehtml" or "injecthtml"
  mPath,      \* what file.path is: "server" / "client", "entry" (the file the codemod
              \* is written for) / "other", "json" / "js"
  mSrc,       \* the file's source, as the program the parser reads from it
  mPrev,      \* the source before the last application (<<>> before the first)
  mApps       \* how many times the codemod has been applied to the file

VARIABLES
  pScript,    \* sequential runner: "codemods", "push" or "build"
  pTools,     \* the executables `which` finds on PATH
  pOpts,      \* docker scripts: whether a registry is given, the Dockerfile / context exist
  pFound,     \* run-codemods: basenames of codemods/*.js in the order glob yields them
  pCodes,     \* exit code each command of the run ends with, by position
  ppc,        \* position of main(): "start", "discover", "loop", "await", "args", "files",
              \* "tag", "push", "inspect", "cosign", "build", "exited"
  pOrder,     \* run-codemods: codemods, the computed order
  pPos,       \* run-codemods: index in codemods of the current iteration
  pChild,     \* run-codemods: state of the child of each position: "new", "running", "exited"
  pCmds,      \* commands started so far, in order
  pExit       \* exit status, -1 while the process is alive

VARIABLES
  cDisk,      \* transform-docker-compose: file system, path -> content (NoFile if missing)
  cFirst,     \* the file system as it was before the first run
  cFiles,     \* run(): the files matched for the current run, in order
  cPos,       \* index in cFiles of the file being transformed
  cRun,       \* number of the current run
  cpc         \* "start", "backup", "dump" (inside transformOne), "done"

VARIABLES
  sScript,    \* sync-upstream revision: "first", "bun", "merge" or "reset"
  sCodes,     \* exit codes of the commands run so far, by position in the script
  sExit       \* exit status of the script, -1 while it runs

runVars == <<script, N, K, dryRun, hasBun, kind, code, mainpc, idx, wpc, wtask,
             ustate, spawns, failed, hadError, exitStatus>>

envVars == <<eArgs, eEnv, fs, epc, eMerged, eUpdated, eUpdates, eMissing,
             eWarned, eStdout, eWrites, eExit>>

rwVars == <<rScript, rDry, rIdx, rpc, rName, rDisk, rOrig, rOut, rWrote, rBackup, rMsg,
            rTotal, rBad, rExit>>

depVars == <<dScript, dDisk, dBefore, dAfter, dRun, dCall, dpc, dExit>>

pipeVars == <<pScript, pTools, pOpts, pFound, pCodes, ppc, pOrder, pPos, pChild, pCmds, pExit>>

modVars == <<mScript, mPath, mSrc, mPrev, mApps>>

composeVars == <<cDisk, cFirst, cFiles, cPos, cRun, cpc>>

syncVars == <<sScript, sCodes, sExit>>

vars == <<runVars, envVars, rwVars, depVars, modVars, pipeVars, composeVars, syncVars>>

\* what each family of actions leaves alone
notRun == <<envVars, rwVars, depVars, modVars, pipeVars, composeVars, syncVars>>
notEnv == <<runVars, rwVars, depVars, modVars, pipeVars, composeVars, syncVars>>
notRw  == <<runVars, envVars, depVars, modVars, pipeVars, composeVars, syncVars>>
notDep == <<runVars, envVars, rwVars, modVars, pipeVars, composeVars, syncVars>>
notMod == <<runVars, envVars, rwVars, depVars, pipeVars, composeVars, syncVars>>
notPipe == <<runVars, envVars, rwVars, depVars, modVars, composeVars, syncVars>>
notCompose == <<runVars, envVars, rwVars, depVars, modVars, pipeVars, syncVars>>
notSync == <<runVars, envVars, rwVars, depVars, modVars, pipeVars, composeVars>>

NoFile == <<"ENOENT">>                      \* content of a path that does not exist
NoOutput == [has |-> FALSE, val |-> <<>>]   \* no output was computed

\* ---------------------------------------------------------------- helpers
Min(a, b) == IF a < b THEN a ELSE b

Scripts   == {"install", "build", "test"}
ExitCodes == {0, 1}
Undefined == -1    \* JavaScript's undefined, as read from a missing property

\* ================================================================ update-env
\* Text is a sequence of characters; the placeholder word is one symbol.
PH == "GET_FROM_LOCAL_ENV"

\* [A-Z0-9_]: the placeholder word itself consists of such characters
IsKeyChar(c) == c \in {"A", "B", PH}
\* \s
IsSpace(c) == c = " "

RECURSIVE SkipWhile(_, _, _)
\* first position >= i of l whose character is not of the given class
SkipWhile(l, i, space) ==
  IF i <= Len(l) /\ (IF space THEN IsSpace(l[i]) ELSE IsKeyChar(l[i]))
    THEN SkipWhile(l, i + 1, space) ELSE i

\* line.match(/^\s*([A-Z0-9_]+)=GET_FROM_LOCAL_ENV\s*$/): [ok, key]
MatchPlaceholder(l) ==
  LET i == SkipWhile(l, 1, TRUE)
      j == SkipWhile(l, i, FALSE)
      ok == /\ j > i
            /\ j + 1 <= Len(l)
            /\ l[j] = "="
            /\ l[j + 1] = PH
            /\ SkipWhile(l, j + 2, TRUE) = Len(l) + 1
  IN  [ok |-> ok, key |-> IF ok THEN SubSeq(l, i, j - 1) ELSE <<>>]

RECURSIVE IndexOf(_, _, _)
\* position of the first c in l at or after i, or Len(l) + 1
IndexOf(l, c, i) ==
  IF i > Len(l) \/ l[i] = c THEN i ELSE IndexOf(l, c, i + 1)

\* options.fallback = arg.split("=")[1] ?? "" for the argument
\* "--fallback=<raw>": the piece between the first and the second "="
SplitFallback(raw) == SubSeq(raw, 1, IndexOf(raw, "=", 1) - 1)

\* const fallbackDefault = options.fallback ?? ""
FallbackDefault(arg) == IF arg.has THEN SplitFallback(arg.val) ELSE <<>>

\* Bun.env[key]
EnvLookup(env, key) == IF key \in DOMAIN env THEN env[key] ELSE [has |-> FALSE, val |-> <<>>]

\* `${key}=${val}`
Assign(key, val) == key \o <<"=">> \o val

\* one iteration of `for (const line of merged)`
ProcessLine(acc, line, env, fallbackDefault) ==
  LET m == MatchPlaceholder(line) IN
  IF m.ok
    THEN LET val == EnvLookup(env, m.key) IN
         IF val.has
           THEN [acc EXCEPT !.updated = Append(@, Assign(m.key, val.val)),
                            !.updates = Append(@, [key |-> m.key, to |-> val.val])]
           ELSE IF fallbackDefault # <<>>
             THEN [acc EXCEPT !.updated = Append(@, Assign(m.key, fallbackDefault)),
                              !.updates = Append(@, [key |-> m.key, to |-> fallbackDefault])]
             ELSE [acc EXCEPT !.missing = Append(@, m.key),
                              !.updated = Append(@, line)]
    ELSE [acc EXCEPT !.updated = Append(@, line)]

RECURSIVE ProcessLines(_, _, _, _, _)
ProcessLines(acc, lines, i, env, fallbackDefault) ==
  IF i > Len(lines) THEN acc
  ELSE ProcessLines(ProcessLine(acc, lines[i], env, fallbackDefault),
                    lines, i + 1, env, fallbackDefault)

\* `missing.length && strict`: the run aborts
Fatal_always(missing, strict) == missing # <<>>
Fatal(missing, strict) == missing # <<>> /\ strict

\* `if (dryRun) { ...; return; }` before writeEnvFile
SkipsWrite_never(dry) == FALSE
SkipsWrite(dry) == dry

\* ---- inputs of update-env
EnvLines == { <<"A", "=", PH>>,                 \* placeholder
              <<" ", "B", "=", PH, " ">>,       \* placeholder, surrounded by blanks
              <<"A", "=", "x">>,                \* ordinary assignment
              <<"a", "=", PH>> }                \* lower-case name: not a placeholder
Texts(n) == UNION {[1 .. k -> EnvLines] : k \in 0 .. n}
Some(v) == [has |-> TRUE, val |-> v]
None == [has |-> FALSE, val |-> <<>>]
EnvChoices ==
  { [k \in {<<"A">>} |-> None],
    [k \in {<<"A">>} |-> Some(<<>>)],
    [k \in {<<"A">>} |-> Some(<<"v">>)],
    [k \in {<<"A">>, <<"B">>} |-> Some(<<"v", "=", "w">>)] }
FallbackArgs == {None, Some(<<>>), Some(<<"f">>), Some(<<"f", "=", "g">>)}
InputArgs == { <<>>, <<"in1">>, <<"in1", "in2">>, <<"out", "in1">> }
Paths == {"out", "in1", "in2", "tmp"}
OutBefore == << <<"A", "=", PH>> >>              \* the output path's content before the run

EnvInit ==
  /\ \E strict \in BOOLEAN, dry \in BOOLEAN, json \in BOOLEAN,
        fb \in FallbackArgs, inputs \in InputArgs,
        tool \in {<<TRUE, TRUE>>, <<FALSE, TRUE>>, <<TRUE, FALSE>>} :
       eArgs = [strict |-> strict, dryRun |-> dry, json |-> json, fallback |-> fb,
                inputs |-> inputs, hasBun |-> tool[1], outGiven |-> tool[2]]
  /\ eEnv \in EnvChoices
  /\ \E t1 \in Texts(MaxLines) \cup {NoFile}, t2 \in {NoFile, << <<" ", "B", "=", PH, " ">> >>} :
       fs = [p \in Paths |->
               CASE p = "in1" -> t1
                 [] p = "in2" -> t2
                 [] p = "out" -> OutBefore
                 [] OTHER -> NoFile]
  /\ epc = "start"
  /\ eMerged = <<>> /\ eUpdated = <<>> /\ eUpdates = <<>> /\ eMissing = <<>>
  /\ eWarned = <<>>
  /\ eStdout = <<"none">>
  /\ eWrites = <<>>
  /\ eExit = -1
  \* the orchestrators are not running
  /\ script = "none" /\ N = 0 /\ K = 1 /\ dryRun = FALSE /\ hasBun = TRUE
  /\ kind = <<>> /\ code = <<>> /\ mainpc = "exited" /\ idx = 0
  /\ wpc = <<>> /\ wtask = <<>> /\ ustate = <<>> /\ spawns = <<>>
  /\ failed = {} /\ hadError = FALSE /\ exitStatus = 0
  \* no rewriting script is running
  /\ rScript = "none" /\ rDry = FALSE /\ rIdx = 0 /\ rpc = "done" /\ rName = "other"
  /\ rDisk = <<>> /\ rOrig = <<>> /\ rOut = NoOutput /\ rWrote = FALSE
  /\ rBackup = NoFile /\ rMsg = "none" /\ rTotal = 0 /\ rBad = 0 /\ rExit = 0
  \* update-packagejson is not running
  /\ dScript = "none" /\ dDisk = <<>> /\ dBefore = <<>> /\ dAfter = <<>>
  /\ dRun = 0 /\ dCall = 0 /\ dpc = "exited" /\ dExit = 0
  \* no codemod is being applied
  /\ mScript = "none" /\ mPath = "other" /\ mSrc = <<>> /\ mPrev = <<>> /\ mApps = 0
  \* no sequential runner is running
  /\ pScript = "none" /\ pTools = {} /\ pOpts = <<>> /\ pFound = <<>> /\ pCodes = <<>>
  /\ ppc = "exited" /\ pOrder = <<>> /\ pPos = 0 /\ pChild = <<>> /\ pCmds = <<>> /\ pExit = 0
  \* transform-docker-compose is not running
  /\ cDisk = <<>> /\ cFirst = <<>> /\ cFiles = <<>> /\ cPos = 0 /\ cRun = 0 /\ cpc = "done"
  \* no sync-upstream script is running
  /\ sScript = "none" /\ sCodes = <<>> /\ sExit = 0

\* error(msg): Bun.exit(1)
EnvError ==
  /\ epc' = "done"
  /\ eExit' = 1

\* findEnvFiles(): the `.env*` files of the working directory, as the list
\* main() takes the scan's result to be
FindEnvFiles(f) == SelectSeq(<<"in1", "in2">>, LAMBDA p : f[p] # NoFile)

RECURSIVE MergeFiles(_, _, _)
\* the loop over inputPaths: missing files are skipped with a warning
MergeFiles(f, paths, i) ==
  IF i > Len(paths) THEN <<>>
  ELSE (IF f[paths[i]] = NoFile THEN <<>> ELSE f[paths[i]]) \o MergeFiles(f, paths, i + 1)

\* main() from the tool check to the end of the merge loop
EnvRead ==
  /\ epc = "start"
  /\ LET inputPaths == IF eArgs.inputs = <<>> THEN FindEnvFiles(fs) ELSE eArgs.inputs IN
     IF ~eArgs.hasBun \/ ~eArgs.outGiven \/ inputPaths = <<>>
       THEN \* "Bun is not installed", usage, or "No .env* files found for input."
            /\ EnvError
            /\ UNCHANGED eMerged
       ELSE /\ eMerged' = MergeFiles(fs, inputPaths, 1)
            /\ epc' = "process"
            /\ UNCHANGED eExit
  /\ UNCHANGED <<eArgs, eEnv, fs, eUpdated, eUpdates, eMissing, eWarned, eStdout, eWrites>>
  /\ UNCHANGED notEnv

\* the substitution loop, then the strict / warning branch
EnvProcess ==
  /\ epc = "process"
  /\ LET r == ProcessLines([updated |-> <<>>, updates |-> <<>>, missing |-> <<>>],
                           eMerged, 1, eEnv, FallbackDefault(eArgs.fallback)) IN
     /\ eUpdated' = r.updated
     /\ eUpdates' = r.updates
     /\ eMissing' = r.missing
     /\ eWarned' = r.missing
     /\ IF Fatal(r.missing, eArgs.strict)
          THEN EnvError     \* "Aborting due to missing environment variables."
          ELSE /\ epc' = "output"
               /\ UNCHANGED eExit
  /\ UNCHANGED <<eArgs, eEnv, fs, eMerged, eStdout, eWrites>>
  /\ UNCHANGED notEnv

\* dry run: print and return; otherwise writeEnvFile's first Bun.write
EnvOutput ==
  /\ epc = "output"
  /\ IF SkipsWrite(eArgs.dryRun)
       THEN /\ eStdout' = (IF eArgs.json THEN <<"json", eUpdates>> ELSE <<"lines", eUpdated>>)
            /\ epc' = "done"
            /\ eExit' = 0
            /\ UNCHANGED <<fs, eWrites>>
       ELSE /\ fs' = [fs EXCEPT !["tmp"] = eUpdated]
            /\ eWrites' = Append(eWrites, "tmp")
            /\ epc' = "copy"
            /\ UNCHANGED <<eStdout, eExit>>
  /\ UNCHANGED <<eArgs, eEnv, eMerged, eUpdated, eUpdates, eMissing, eWarned>>
  /\ UNCHANGED notEnv

\* writeEnvFile's second Bun.write, then the report
EnvCopy ==
  /\ epc = "copy"
  /\ fs' = [fs EXCEPT !["out"] = fs["tmp"]]
  /\ eWrites' = Append(eWrites, "out")
  /\ eStdout' = (IF eArgs.json THEN <<"json", eUpdates>> ELSE <<"wrote", eUpdates>>)
  /\ epc' = "done"
  /\ eExit' = 0
  /\ UNCHANGED <<eArgs, eEnv, eMerged, eUpdated, eUpdates, eMissing, eWarned>>
  /\ UNCHANGED notEnv

EnvNext ==
  \/ EnvRead
  \/ EnvProcess
  \/ EnvOutput
  \/ EnvCopy

\* ---- writeEnvFile's second Bun.write in the steps the file system sees:
\* Bun.write(outPath, text) opens outPath for writing, which truncates it,
\* then writes the text; no rename is involved.
EnvCopyOpen ==
  /\ epc = "copy"
  /\ fs' = [fs EXCEPT !["out"] = <<>>]
  /\ eWrites' = Append(eWrites, "out")
  /\ epc' = "copying"
  /\ UNCHANGED <<eArgs, eEnv, eMerged, eUpdated, eUpdates, eMissing, eWarned, eStdout, eExit>>
  /\ UNCHANGED notEnv

\* the text reaches the file line by line; after the last line, the report
EnvCopyWrite ==
  /\ epc = "copying"
  /\ IF Len(fs["out"]) < Len(fs["tmp"])
       THEN /\ fs' = [fs EXCEPT !["out"] = Append(@, fs["tmp"][Len(@) + 1])]
            /\ UNCHANGED <<epc, eStdout, eExit>>
       ELSE /\ eStdout' = (IF eArgs.json THEN <<"json", eUpdates>> ELSE <<"wrote", eUpdates>>)
            /\ epc' = "done"
            /\ eExit' = 0
            /\ UNCHANGED fs
  /\ UNCHANGED <<eArgs, eEnv, eMerged, eUpdated, eUpdates, eMissing, eWarned, eWrites>>
  /\ UNCHANGED notEnv

\* the process ends inside writeEnvFile: killed by a signal, or the I/O
\* error of a full disk surfacing in main().catch
EnvInterrupt ==
  /\ epc \in {"copy", "copying"}
  /\ epc' = "killed"
  /\ eExit' = 1
  /\ UNCHANGED <<eArgs, eEnv, fs, eMerged, eUpdated, eUpdates, eMissing, eWarned, eStdout, eWrites>>
  /\ UNCHANGED notEnv

EnvFaultsNext ==
  \/ EnvRead
  \/ EnvProcess
  \/ EnvOutput
  \/ EnvCopyOpen
  \/ EnvCopyWrite
  \/ EnvInterrupt

\* ====================================================== file-rewriting scripts
\* Shell text is a sequence of words separated by single blanks.

RECURSIVE ReplaceAll(_, _, _)
\* text.replace(/\b<pat>\b/g, rep) for a literal pattern of whole words
ReplaceAll(t, pat, rep) ==
  IF Len(t) < Len(pat) THEN t
  ELSE IF SubSeq(t, 1, Len(pat)) = pat
    THEN rep \o ReplaceAll(SubSeq(t, Len(pat) + 1, Len(t)), pat, rep)
    ELSE <<t[1]>> \o ReplaceAll(Tail(t), pat, rep)

RECURSIVE ApplyRules(_, _, _)
\* a chain of .replace calls, in order
ApplyRules(t, rules, i) ==
  IF i > Len(rules) THEN t
  ELSE ApplyRules(ReplaceAll(t, rules[i][1], rules[i][2]), rules, i + 1)

\* transform-utils.js: the replace chain of transformFile
UtilsRules ==
  << << <<"npm", "view">>,    <<"bun", "pm", "info">> >>,
     << <<"npm", "ci">>,      <<"bun", "install", "--frozen-lockfile">> >>,
     << <<"npm", "install">>, <<"bun", "install">> >>,
     << <<"npm", "test">>,    <<"bun", "test">> >>,
     << <<"npm", "run">>,     <<"bun", "run">> >>,
     << <<"npx">>,            <<"bunx">> >>,
     << <<"yarn", "add">>,    <<"bun", "add">> >>,
     << <<"yarn", "init">>,   <<"bun", "init">> >>,
     << <<"yarn">>,           <<"bun">> >> >>

UtilsTransform(t) == ApplyRules(t, UtilsRules, 1)

RECURSIVE HuskyYarnRun(_)
\* .replace(/\byarn(?:\s+run)?\s+(\S+)/g, "bun run $1")
HuskyYarnRun(t) ==
  IF t = <<>> THEN t
  ELSE IF t[1] = "yarn" /\ Len(t) >= 3 /\ t[2] = "run"
    THEN <<"bun", "run", t[3]>> \o HuskyYarnRun(SubSeq(t, 4, Len(t)))
  ELSE IF t[1] = "yarn" /\ Len(t) >= 2
    THEN <<"bun", "run", t[2]>> \o HuskyYarnRun(SubSeq(t, 3, Len(t)))
  ELSE <<t[1]>> \o HuskyYarnRun(Tail(t))

RECURSIVE HuskyNpmRun(_)
\* .replace(/\bnpm\s+run\s+(\S+)/g, "bun run $1")
HuskyNpmRun(t) ==
  IF t = <<>> THEN t
  ELSE IF t[1] = "npm" /\ Len(t) >= 3 /\ t[2] = "run"
    THEN <<"bun", "run", t[3]>> \o HuskyNpmRun(SubSeq(t, 4, Len(t)))
  ELSE <<t[1]>> \o HuskyNpmRun(Tail(t))

\* transform-husky.js: the rest of transformContent's chain
HuskyRules ==
  << << <<"yarn">>, <<"bun">> >>,
     << <<"npm">>,  <<"bun">> >>,
     << <<"npx">>,  <<"bunx">> >>,
     << <<"bun", "run", "test">>,  <<"bun", "test">> >>,
     << <<"bun", "run", "build">>, <<"bun", "build">> >> >>

HuskyTransform(t) == ApplyRules(HuskyNpmRun(HuskyYarnRun(t)), HuskyRules, 1)

\* ---- transform-docker-scripts.js: text is a sequence of lines of words
ShebangLine == <<"#!/usr/bin/env", "bash">>
BuildArgWord == "BUN_BASE_IMAGE=$BUN_BASE_IMAGE"
Injection ==
  << <<"#", "begin-bun-base-image-injection">>,
     <<":", "${BUN_BASE_IMAGE:=oven/bun:latest}">>,
     <<"export", "BUN_BASE_IMAGE">>,
     <<"#", "end-bun-base-image-injection">> >>

\* l.startsWith('#!')
IsShebang(l) == l # <<>> /\ l[1] \in {"#!/usr/bin/env", "#!/bin/sh"}

\* words in which /\bBUN_BASE_IMAGE\b/ matches
MentionsBase(w) == w \in {"BUN_BASE_IMAGE", BuildArgWord, "${BUN_BASE_IMAGE:=oven/bun:latest}"}

RECURSIVE FindShebang(_, _)
\* lines.findIndex(l => l.startsWith('#!')): 0-based, -1 if none
FindShebang(lines, i) ==
  IF i > Len(lines) THEN -1
  ELSE IF IsShebang(lines[i]) THEN i - 1 ELSE FindShebang(lines, i + 1)

\* lines.splice(k, 0, ...ins)
Splice(lines, k, ins) == SubSeq(lines, 1, k) \o ins \o SubSeq(lines, k + 1, Len(lines))

\* /--build-arg\s+BUN_BASE_IMAGE/.test(line)
HasBuildArg(l) ==
  \E i \in 1 .. Len(l) - 1 : l[i] = "--build-arg" /\ MentionsBase(l[i + 1])

\* the callback of step 5's lines.map
InjectBuildArg(l) ==
  IF Len(l) >= 2 /\ l[1] = "docker" /\ l[2] = "build" /\ ~HasBuildArg(l)
    THEN <<"docker", "build", "--build-arg", BuildArgWord>> \o SubSeq(l, 3, Len(l))
    ELSE l

RECURSIVE ReplaceRun(_, _)
\* .replace(/\b<pm>\s+run\s+([^\s]+)/g, 'bun run $1')
ReplaceRun(t, pm) ==
  IF t = <<>> THEN t
  ELSE IF t[1] = pm /\ Len(t) >= 3 /\ t[2] = "run"
    THEN <<"bun", "run", t[3]>> \o ReplaceRun(SubSeq(t, 4, Len(t)), pm)
  ELSE <<t[1]>> \o ReplaceRun(Tail(t), pm)

\* REPLACEMENTS, in table order; an entry with one word stands for
\* /\b<pm>\s+run\s+([^\s]+)/g -> 'bun run $1'
REPLACEMENTS ==
  << << <<"npm", "install">>,  <<"bun", "install">> >>,
     << <<"npm", "ci">>,       <<"bun", "install">> >>,
     << <<"npm">>,             <<"bun", "run">> >>,
     << <<"yarn", "install">>, <<"bun", "install">> >>,
     << <<"yarn", "add">>,     <<"bun", "add">> >>,
     << <<"yarn">>,            <<"bun", "run">> >>,
     << <<"yarn", "build">>,   <<"bun", "build">> >>,
     << <<"yarn", "test">>,    <<"bun", "test">> >> >>

\* regex.test(l) for entry r of REPLACEMENTS
RegexTest(r, l) ==
  IF Len(REPLACEMENTS[r][1]) = 1
    THEN \E i \in 1 .. Len(l) - 2 : l[i] = REPLACEMENTS[r][1][1] /\ l[i + 1] = "run"
    ELSE \E i \in 1 .. Len(l) - 1 : SubSeq(l, i, i + 1) = REPLACEMENTS[r][1]

\* some regex of REPLACEMENTS matches in line l
MatchesReplacement(l) == \E r \in 1 .. Len(REPLACEMENTS) : RegexTest(r, l)

RECURSIVE ReplaceLine(_, _)
\* step 4's loop over REPLACEMENTS from entry r on, for one line
ReplaceLine(l, r) ==
  IF r > Len(REPLACEMENTS) THEN l
  ELSE IF Len(REPLACEMENTS[r][1]) = 1
    THEN ReplaceLine(ReplaceRun(l, REPLACEMENTS[r][1][1]), r + 1)
    ELSE ReplaceLine(ReplaceAll(l, REPLACEMENTS[r][1], REPLACEMENTS[r][2]), r + 1)

\* step 4, line by line (no line of the inputs ends in npm or yarn, so no
\* match spans a line break)
ReplaceCommands(text) == [i \in 1 .. Len(text) |-> ReplaceLine(text[i], 1)]

\* steps 1-5 of transformFile: the text compared with the original and
\* written back.  Step 4 assigns its replacements to `updated`; step 5
\* assigns the joined `lines`, split off before step 4, to `updated` again.
DockerTransform(original) ==
  LET shebangIdx == FindShebang(original, 1)
      lines1 == IF shebangIdx = -1 THEN <<ShebangLine>> \o original ELSE original
      mentioned == \E i \in 1 .. Len(original) :
                     \E j \in 1 .. Len(original[i]) : MentionsBase(original[i][j])
      lines2 == IF mentioned THEN lines1 ELSE Splice(lines1, shebangIdx + 1, Injection)
      updated4 == ReplaceCommands(original)
      updated5 == [i \in 1 .. Len(lines2) |-> InjectBuildArg(lines2[i])]
  IN  updated5

\* ---- transform-client-html.js: a document is a sequence of elements
\*   "scriptSrc"    <script src="...">
\*   "scriptTheme"  inline script containing `const theme =`
\*   "scriptModule" <script type="module">await import('...');</script>
\*   "loader"       the injected main.jsx loader script
\*   "div"          anything else
RECURSIVE HtmlTransform(_, _)
HtmlTransform(doc, isIndex) ==
  IF doc = <<>> THEN <<>>
  ELSE (CASE doc[1] = "scriptSrc" -> <<"scriptModule">>
          [] doc[1] = "scriptTheme" /\ isIndex -> <<"scriptTheme", "loader">>
          [] OTHER -> <<doc[1]>>)
       \o HtmlTransform(Tail(doc), isIndex)

\* ---- JSON files: a text is [fmt, val]; fmt "canon" is the layout
\* JSON.stringify(v, null, 2) + "\n" produces, "loose" any other layout of a
\* parsable text, "bad" a text JSON.parse rejects.
Stringify(v) == [fmt |-> "canon", val |-> v]

\* transform-package-json.js (one legacy name and two prioritized names stand
\* for the lists of the script)
REMOVE == {"express"}
PRIORITIZED == <<"elysia", "@elysiajs/cors">>
DepNames == {"express", "zod", "elysia", "@elysiajs/cors"}
\* position of a name under Array.prototype.sort()
SortRank == [n \in DepNames |->
               CASE n = "@elysiajs/cors" -> 1 [] n = "elysia" -> 2
                 [] n = "express" -> 3 [] OTHER -> 4]

InBlock(n, b) == \E i \in 1 .. Len(b) : b[i] = n

RECURSIVE SortedFrom(_)
\* the names of set S in ascending sort order
SortedFrom(S) ==
  IF S = {} THEN <<>>
  ELSE LET m == CHOOSE n \in S : \A o \in S : SortRank[n] <= SortRank[o]
       IN  <<m>> \o SortedFrom(S \ {m})

\* reorderDeps(block): prioritized names first, the rest alphabetically
ReorderDeps(b) ==
  LET names == {b[i] : i \in 1 .. Len(b)}
      prio == SelectSeq(PRIORITIZED, LAMBDA n : n \in names)
      rest == names \ {PRIORITIZED[i] : i \in 1 .. Len(PRIORITIZED)}
  IN  prio \o SortedFrom(rest)

\* "Remove legacy deps" for one section: drop REMOVE, delete the section if empty
DropLegacy(sec) ==
  IF ~sec.has THEN sec
  ELSE LET kept == SelectSeq(sec.val, LAMBDA n : n \notin REMOVE)
       IN  IF kept = <<>> THEN None ELSE Some(kept)

\* the object transformPackageJson stringifies
PackageTransform(pkg) ==
  LET deps1 == DropLegacy(pkg.deps)
      dev1  == DropLegacy(pkg.dev)
      deps2 == IF deps1.has THEN deps1.val ELSE <<>>
      deps3 == IF InBlock("elysia", deps2) THEN deps2 ELSE Append(deps2, "elysia")
  IN  [type    |-> "module",
       engines |-> "set",
       scripts |-> "all",
       deps    |-> Some(ReorderDeps(deps3)),
       dev     |-> IF dev1.has THEN Some(ReorderDeps(dev1.val)) ELSE dev1]

\* transform-tsconfig.js: transformConfig's object
TsconfigTransform(cfg) ==
  [flags |-> TRUE, paths |-> FALSE, imports |-> TRUE, types |-> TRUE]

\* ---- inputs of the rewriting scripts
RwScripts == {"utils", "husky", "docker", "html", "package", "tsconfig"}
ShellWords == {"npm", "yarn", "npx", "run", "test", "install", "bun"}
ShellTexts == UNION {[1 .. k -> ShellWords] : k \in 0 .. MaxWords}
DockerLines == { ShebangLine, <<"npm", "install">>, <<"docker", "build", ".">>,
                 <<"docker", "build", "--build-arg", BuildArgWord, ".">>,
                 <<"export", "BUN_BASE_IMAGE">> }
DockerTexts == UNION {[1 .. k -> DockerLines] : k \in 0 .. MaxShLines}
HtmlElems == {"scriptSrc", "scriptTheme", "scriptModule", "loader", "div"}
HtmlDocs == UNION {[1 .. k -> HtmlElems] : k \in 0 .. MaxElems}
DepBlocks ==
  {b \in UNION {[1 .. k -> DepNames] : k \in 0 .. MaxDeps} :
     \A i, j \in 1 .. Len(b) : i # j => b[i] # b[j]}
PackageVals ==
  [type : {"absent", "module", "commonjs"},
   engines : {"absent", "set"},
   scripts : {"all", "some"},
   deps : {None} \cup {Some(b) : b \in DepBlocks},
   dev : {None, Some(<<"zod">>), Some(<<"express">>)}]
TsconfigVals == [flags : BOOLEAN, paths : BOOLEAN, imports : BOOLEAN, types : BOOLEAN]
JsonTexts(vals) ==
  [fmt : {"canon", "loose"}, val : vals] \cup {[fmt |-> "bad", val |-> CHOOSE v \in vals : TRUE]}

Contents(sc) ==
  CASE sc = "utils" -> ShellTexts \cup {NoFile}
    [] sc = "husky" -> ShellTexts \cup {NoFile}
    [] sc = "docker" -> DockerTexts
    [] sc = "html" -> HtmlDocs
    [] sc = "package" -> JsonTexts(PackageVals)
    [] OTHER -> JsonTexts(TsconfigVals)

RwInit ==
  /\ rScript \in RwScripts
  /\ rDry \in (IF rScript = "husky" THEN BOOLEAN ELSE {FALSE})
  /\ rIdx = 1
  /\ rpc = "read"
  /\ rName \in (IF rScript = "html" THEN {"index", "other"} ELSE {"other"})
  /\ rDisk \in Contents(rScript)
  /\ rOrig = <<>>
  /\ rOut = NoOutput
  /\ rWrote = FALSE
  /\ rBackup = NoFile
  /\ rMsg = "none"
  /\ rTotal \in 1 .. MaxFiles
  /\ rBad = 0
  /\ rExit = -1
  \* the orchestrators are not running
  /\ script = "none" /\ N = 0 /\ K = 1 /\ dryRun = FALSE /\ hasBun = TRUE
  /\ kind = <<>> /\ code = <<>> /\ mainpc = "exited" /\ idx = 0
  /\ wpc = <<>> /\ wtask = <<>> /\ ustate = <<>> /\ spawns = <<>>
  /\ failed = {} /\ hadError = FALSE /\ exitStatus = 0
  \* update-env is not running
  /\ eArgs = <<>> /\ eEnv = <<>> /\ fs = <<>> /\ epc = "done"
  /\ eMerged = <<>> /\ eUpdated = <<>> /\ eUpdates = <<>> /\ eMissing = <<>>
  /\ eWarned = <<>> /\ eStdout = <<"none">> /\ eWrites = <<>> /\ eExit = 0
  \* update-packagejson is not running
  /\ dScript = "none" /\ dDisk = <<>> /\ dBefore = <<>> /\ dAfter = <<>>
  /\ dRun = 0 /\ dCall = 0 /\ dpc = "exited" /\ dExit = 0
  \* no codemod is being applied
  /\ mScript = "none" /\ mPath = "other" /\ mSrc = <<>> /\ mPrev = <<>> /\ mApps = 0
  \* no sequential runner is running
  /\ pScript = "none" /\ pTools = {} /\ pOpts = <<>> /\ pFound = <<>> /\ pCodes = <<>>
  /\ ppc = "exited" /\ pOrder = <<>> /\ pPos = 0 /\ pChild = <<>> /\ pCmds = <<>> /\ pExit = 0
  \* transform-docker-compose is not running
  /\ cDisk = <<>> /\ cFirst = <<>> /\ cFiles = <<>> /\ cPos = 0 /\ cRun = 0 /\ cpc = "done"
  \* no sync-upstream script is running
  /\ sScript = "none" /\ sCodes = <<>> /\ sExit = 0

\* the file was read; `out` is the output computed for it, `write` whether
\* the script goes on to write it, `msg` what it reports
Visited(out, write, msg) ==
  /\ rOrig' = rDisk
  /\ rOut' = out
  /\ rWrote' = write
  /\ rDisk' = (IF write THEN out.val ELSE rDisk)
  /\ rMsg' = msg
  /\ rpc' = "visited"
  /\ rBad' = (IF msg \in {"error", "skipped"} THEN rBad + 1 ELSE rBad)
  /\ UNCHANGED <<rScript, rDry, rIdx, rName, rTotal, rExit>>
  /\ UNCHANGED notRw

\* transform-utils.js: transformFile
UtilsTransformFile ==
  /\ rScript = "utils" /\ rpc = "read"
  /\ IF rDisk = NoFile
       THEN \* "Skipping missing file"
            Visited(NoOutput, FALSE, "skipped") /\ UNCHANGED rBackup
       ELSE LET transformed == UtilsTransform(rDisk) IN
            IF transformed = rDisk
              THEN Visited(Some(transformed), FALSE, "nochange") /\ UNCHANGED rBackup
              ELSE Visited(Some(transformed), TRUE, "updated") /\ rBackup' = rDisk

\* transform-husky.js: one iteration of main's loop
HuskyVisit ==
  /\ rScript = "husky" /\ rpc = "read"
  /\ UNCHANGED rBackup
  /\ IF rDisk = NoFile
       THEN \* "Skipping unreadable"
            Visited(NoOutput, FALSE, "skipped")
       ELSE LET updated == HuskyTransform(rDisk) IN
            IF updated = rDisk THEN Visited(Some(updated), FALSE, "nochange")
            ELSE IF rDry THEN Visited(Some(updated), FALSE, "would-update")
            ELSE Visited(Some(updated), TRUE, "updated")

\* transform-docker-scripts.js: transformFile
DockerTransformFile ==
  /\ rScript = "docker" /\ rpc = "read"
  /\ UNCHANGED rBackup
  /\ LET updated == DockerTransform(rDisk) IN
     IF updated = rDisk THEN Visited(Some(updated), FALSE, "nochange")
     ELSE Visited(Some(updated), TRUE, "updated")

\* transform-client-html.js: one iteration of main's loop
HtmlVisit ==
  /\ rScript = "html" /\ rpc = "read"
  /\ UNCHANGED rBackup
  /\ LET updated == HtmlTransform(rDisk, rName = "index") IN
     IF updated # rDisk THEN Visited(Some(updated), TRUE, "updated")
     ELSE Visited(Some(updated), FALSE, "nochange")

\* JSON.parse(text) throws
ParseFails_never(text) == FALSE
ParseFails(text) == text.fmt = "bad"

\* transform-package-json.js: transformPackageJson
PackageVisit ==
  /\ rScript = "package" /\ rpc = "read"
  /\ UNCHANGED rBackup
  /\ IF ParseFails(rDisk)
       THEN \* JSON.parse throws into the catch: "ERROR on <file>"
            Visited(NoOutput, FALSE, "error")
       ELSE \* Bun.write, then "Updated <file>", whatever the text was
            Visited(Some(Stringify(PackageTransform(rDisk.val))), TRUE, "updated")

\* transform-tsconfig.js: one iteration of main's loop
TsconfigVisit ==
  /\ rScript = "tsconfig" /\ rpc = "read"
  /\ UNCHANGED rBackup
  /\ IF ParseFails(rDisk)
       THEN \* transformConfig returns null: "Invalid JSON ..., skipping."
            Visited(NoOutput, FALSE, "skipped")
       ELSE \* out !== null: Bun.writeFile, then "Wrote updated <file>"
            Visited(Some(Stringify(TsconfigTransform(rDisk.val))), TRUE, "updated")

\* the loop moves on to the next discovered file, or the scan ends
RwNextFile ==
  /\ rpc = "visited"
  /\ \/ /\ rIdx < rTotal
        /\ rIdx' = rIdx + 1
        /\ rName' \in (IF rScript = "html" THEN {"index", "other"} ELSE {"other"})
        /\ rDisk' \in Contents(rScript)
        /\ rpc' = "read"
        /\ rOrig' = <<>> /\ rOut' = NoOutput /\ rWrote' = FALSE
        /\ rBackup' = NoFile /\ rMsg' = "none"
        /\ UNCHANGED rExit
     \/ \* main() returns and the process ends
        /\ rIdx = rTotal
        /\ rpc' = "done"
        /\ rExit' = 0
        /\ UNCHANGED <<rIdx, rName, rDisk, rOrig, rOut, rWrote, rBackup, rMsg>>
  /\ UNCHANGED <<rScript, rDry, rTotal, rBad>>
  /\ UNCHANGED notRw

RwNext ==
  \/ UtilsTransformFile
  \/ HuskyVisit
  \/ DockerTransformFile
  \/ HtmlVisit
  \/ PackageVisit
  \/ TsconfigVisit
  \/ RwNextFile

\* ===================================================== fan-out orchestrators
Units == 1 .. N

\* Array.from({ length: limit }, worker): one worker per slot
Workers_extra(limit) == 1 .. (limit + 1)
Workers(limit) == 1 .. limit

\* idx++ in runConcurrent's worker
NextIdx_skip(i) == i + 2
NextIdx_stuck(i) == i
NextIdx(i) == i + 1

\* pkgFiles.slice(i, i + options.jobs): the units of the batch starting at i
Batch(i, jobs, n) == (i + 1) .. Min(i + jobs, n)

\* The value the script compares with 0 after `await proc.exited`, which
\* resolves to the exit code (a number).  bun-install-all binds the number;
\* bun-build-all and bun-test-all destructure `{ exitCode }` from it, and a
\* number has no such property.
ReadExitCode(s, c) == IF s = "install" THEN c ELSE Undefined

\* What a non-zero exit does: bun-build-all calls error(), which ends the
\* process with Bun.exit(1); the other two record the failure and go on.
FailAborts_all(s) == TRUE
FailAborts(s) == s = "build"

\* --dry-run is parsed by bun-install-all and bun-build-all only
HasDryRun(s) == s \in {"install", "build"}

\* pkgFiles.sort: the comparator puts `${root}/package.json` before every
\* other path, so the root package is the first task
RootUnit == 1

RunInit ==
  /\ script \in Scripts
  /\ N \in 0 .. MaxUnits
  /\ K \in 1 .. MaxK
  /\ dryRun \in (IF HasDryRun(script) THEN BOOLEAN ELSE {FALSE})
  /\ hasBun \in (IF script = "test" THEN {TRUE} ELSE BOOLEAN)
  /\ kind \in [1 .. N -> (IF script = "build" THEN {"cmd", "skip", "bad"} ELSE {"cmd"})]
  /\ code \in [1 .. N -> ExitCodes]
  /\ mainpc = "start"
  /\ idx = 0
  /\ wpc = [w \in Workers(K) |-> "done"]
  /\ wtask = [w \in Workers(K) |-> 0]
  /\ ustate = [u \in 1 .. N |-> "new"]
  /\ spawns = [u \in 1 .. N |-> 0]
  /\ failed = {}
  /\ hadError = FALSE
  /\ exitStatus = -1
  \* update-env is not running
  /\ eArgs = <<>> /\ eEnv = <<>> /\ fs = <<>> /\ epc = "done"
  /\ eMerged = <<>> /\ eUpdated = <<>> /\ eUpdates = <<>> /\ eMissing = <<>>
  /\ eWarned = <<>> /\ eStdout = <<"none">> /\ eWrites = <<>> /\ eExit = 0
  \* no rewriting script is running
  /\ rScript = "none" /\ rDry = FALSE /\ rIdx = 0 /\ rpc = "done" /\ rName = "other"
  /\ rDisk = <<>> /\ rOrig = <<>> /\ rOut = NoOutput /\ rWrote = FALSE
  /\ rBackup = NoFile /\ rMsg = "none" /\ rTotal = 0 /\ rBad = 0 /\ rExit = 0
  \* update-packagejson is not running
  /\ dScript = "none" /\ dDisk = <<>> /\ dBefore = <<>> /\ dAfter = <<>>
  /\ dRun = 0 /\ dCall = 0 /\ dpc = "exited" /\ dExit = 0
  \* no codemod is being applied
  /\ mScript = "none" /\ mPath = "other" /\ mSrc = <<>> /\ mPrev = <<>> /\ mApps = 0
  \* no sequential runner is running
  /\ pScript = "none" /\ pTools = {} /\ pOpts = <<>> /\ pFound = <<>> /\ pCodes = <<>>
  /\ ppc = "exited" /\ pOrder = <<>> /\ pPos = 0 /\ pChild = <<>> /\ pCmds = <<>> /\ pExit = 0
  \* transform-docker-compose is not running
  /\ cDisk = <<>> /\ cFirst = <<>> /\ cFiles = <<>> /\ cPos = 0 /\ cRun = 0 /\ cpc = "done"
  \* no sync-upstream script is running
  /\ sScript = "none" /\ sCodes = <<>> /\ sExit = 0

\* Bun.exit(status), or main() returning with nothing left to run (status 0)
Exit(status) ==
  /\ mainpc' = "exited"
  /\ exitStatus' = status

\* Bun.spawn for unit u
Spawn(u) ==
  /\ ustate' = [ustate EXCEPT ![u] = "running"]
  /\ spawns' = [spawns EXCEPT ![u] = @ + 1]

\* main() up to the fan-out: tool check, discovery, empty-list early return
RunStart ==
  /\ mainpc = "start"
  /\ IF script # "test" /\ ~hasBun
       THEN \* error("Bun CLI not found ...")
            /\ Exit(1)
            /\ UNCHANGED <<wpc>>
       ELSE IF script # "test" /\ N = 0
         THEN \* "No package.json files found." / "No valid workspace directories found."
              /\ Exit(0)
              /\ UNCHANGED <<wpc>>
         ELSE /\ mainpc' = (IF script = "test" THEN "loop" ELSE "run")
              /\ wpc' = [w \in DOMAIN wpc |-> IF script = "test" THEN "done" ELSE "loop"]
              /\ UNCHANGED <<exitStatus>>
  /\ UNCHANGED notRun /\ UNCHANGED <<script, N, K, dryRun, hasBun, kind, code, idx, wtask, ustate, spawns,
                 failed, hadError>>

\* worker(): `while (idx < tasks.length) { const task = tasks[idx++]; await task(); }`
\* up to the task's first await.
WorkerPick(w) ==
  /\ mainpc = "run"
  /\ wpc[w] = "loop"
  /\ idx < N
  /\ LET t == idx + 1 IN
     /\ idx' = NextIdx(idx)
     /\ IF script = "build"
          THEN \* awaits Bun.file(pkgFile).text() before anything else
               /\ wpc' = [wpc EXCEPT ![w] = "prep"]
               /\ wtask' = [wtask EXCEPT ![w] = t]
               /\ UNCHANGED <<ustate, spawns>>
          ELSE IF dryRun
            THEN \* "Dry-run mode: no actual install."
                 /\ ustate' = [ustate EXCEPT ![t] = "skipped"]
                 /\ UNCHANGED <<wpc, wtask, spawns>>
            ELSE /\ Spawn(t)
                 /\ wpc' = [wpc EXCEPT ![w] = "await"]
                 /\ wtask' = [wtask EXCEPT ![w] = t]
  /\ UNCHANGED notRun /\ UNCHANGED <<script, N, K, dryRun, hasBun, kind, code, mainpc, failed, hadError,
                 exitStatus>>

\* bun-build-all's task between reading the manifest and spawning the build
BuildPrep(w) ==
  /\ mainpc = "run"
  /\ wpc[w] = "prep"
  /\ LET t == wtask[w] IN
     CASE kind[t] = "bad" ->
            \* JSON.parse throws: the worker rejects, Promise.all rejects,
            \* main().catch prints and calls Bun.exit(1)
            /\ Exit(1)
            /\ UNCHANGED <<wpc, wtask, ustate, spawns>>
       [] kind[t] = "skip" \/ (kind[t] \in {"cmd", "hang"} /\ dryRun) ->
            \* no entrypoint found, or dry-run: the task returns
            /\ ustate' = [ustate EXCEPT ![t] = "skipped"]
            /\ wpc' = [wpc EXCEPT ![w] = "loop"]
            /\ wtask' = [wtask EXCEPT ![w] = 0]
            /\ UNCHANGED <<spawns, mainpc, exitStatus>>
       [] OTHER ->
            /\ Spawn(t)
            /\ wpc' = [wpc EXCEPT ![w] = "await"]
            /\ UNCHANGED <<wtask, mainpc, exitStatus>>
  /\ UNCHANGED notRun /\ UNCHANGED <<script, N, K, dryRun, hasBun, kind, code, idx, failed, hadError>>

\* a child process ends with its exit code
ChildExit(u) ==
  /\ mainpc # "exited"
  /\ ustate[u] = "running"
  /\ kind[u] # "hang"
  /\ ustate' = [ustate EXCEPT ![u] = "exited"]
  /\ UNCHANGED notRun /\ UNCHANGED <<script, N, K, dryRun, hasBun, kind, code, mainpc, idx, wpc, wtask,
                 spawns, failed, hadError, exitStatus>>

\* the task resumes after `await proc.exited` (install, build)
WorkerResume(w) ==
  /\ mainpc = "run"
  /\ wpc[w] = "await"
  /\ ustate[wtask[w]] = "exited"
  /\ LET t == wtask[w]
         exitCode == ReadExitCode(script, code[t]) IN
     /\ ustate' = [ustate EXCEPT ![t] = "awaited"]
     /\ IF exitCode # 0
          THEN /\ failed' = failed \cup {t}
               /\ IF FailAborts(script)
                    THEN /\ Exit(1)
                         /\ UNCHANGED <<hadError, wpc, wtask>>
                    ELSE /\ hadError' = TRUE
                         /\ wpc' = [wpc EXCEPT ![w] = "loop"]
                         /\ wtask' = [wtask EXCEPT ![w] = 0]
                         /\ UNCHANGED <<mainpc, exitStatus>>
          ELSE /\ wpc' = [wpc EXCEPT ![w] = "loop"]
               /\ wtask' = [wtask EXCEPT ![w] = 0]
               /\ UNCHANGED <<failed, hadError, mainpc, exitStatus>>
  /\ UNCHANGED notRun /\ UNCHANGED <<script, N, K, dryRun, hasBun, kind, code, idx, spawns>>

\* worker(): the while condition fails and the worker's promise resolves
WorkerDone(w) ==
  /\ mainpc = "run"
  /\ wpc[w] = "loop"
  /\ idx >= N
  /\ wpc' = [wpc EXCEPT ![w] = "done"]
  /\ UNCHANGED notRun /\ UNCHANGED <<script, N, K, dryRun, hasBun, kind, code, mainpc, idx, wtask, ustate,
                 spawns, failed, hadError, exitStatus>>

\* main() after `await runConcurrent(tasks, concurrency)`
RunJoin ==
  /\ mainpc = "run"
  /\ \A w \in DOMAIN wpc : wpc[w] = "done"
  /\ IF script = "install" /\ hadError
       THEN Exit(1)     \* error("One or more installs failed.")
       ELSE Exit(0)     \* success(...) and main() returns
  /\ UNCHANGED notRun /\ UNCHANGED <<script, N, K, dryRun, hasBun, kind, code, idx, wpc, wtask, ustate,
                 spawns, failed, hadError>>

\* bun-test-all: head of `for (let i = 0; i < pkgFiles.length; i += options.jobs)`
TestLoop ==
  /\ script = "test"
  /\ mainpc = "loop"
  /\ IF idx < N
       THEN \* the batch's async callbacks each run up to `await proc.exited`
            /\ ustate' = [u \in 1 .. N |->
                            IF u \in Batch(idx, K, N) THEN "running" ELSE ustate[u]]
            /\ spawns' = [u \in 1 .. N |->
                            IF u \in Batch(idx, K, N) THEN spawns[u] + 1 ELSE spawns[u]]
            /\ mainpc' = "batch"
            /\ UNCHANGED <<exitStatus>>
       ELSE \* Summary
            /\ IF Cardinality(failed) > 0 THEN Exit(1) ELSE Exit(0)
            /\ UNCHANGED <<ustate, spawns>>
  /\ UNCHANGED notRun /\ UNCHANGED <<script, N, K, dryRun, hasBun, kind, code, idx, wpc, wtask, failed,
                 hadError>>

\* bun-test-all: a batch callback resumes after `await proc.exited`
TestResume(u) ==
  /\ script = "test"
  /\ mainpc = "batch"
  /\ ustate[u] = "exited"
  /\ LET exitCode == ReadExitCode(script, code[u]) IN
     /\ ustate' = [ustate EXCEPT ![u] = "awaited"]
     /\ failed' = (IF exitCode # 0 THEN failed \cup {u} ELSE failed)
  /\ UNCHANGED notRun /\ UNCHANGED <<script, N, K, dryRun, hasBun, kind, code, mainpc, idx, wpc, wtask,
                 spawns, hadError, exitStatus>>

\* bun-test-all: `await Promise.all(batch)` resolves, then i += options.jobs
TestBatchJoin ==
  /\ script = "test"
  /\ mainpc = "batch"
  /\ \A u \in Batch(idx, K, N) : ustate[u] = "awaited"
  /\ idx' = idx + K
  /\ mainpc' = "loop"
  /\ UNCHANGED notRun /\ UNCHANGED <<script, N, K, dryRun, hasBun, kind, code, wpc, wtask, ustate, spawns,
                 failed, hadError, exitStatus>>

\* the runs in which the commands of some units never exit
HangInit ==
  /\ script \in Scripts
  /\ N \in 1 .. MaxUnits
  /\ K \in 1 .. MaxK
  /\ dryRun \in (IF HasDryRun(script) THEN BOOLEAN ELSE {FALSE})
  /\ hasBun \in (IF script = "test" THEN {TRUE} ELSE BOOLEAN)
  /\ kind \in [1 .. N -> (IF script = "build" THEN {"cmd", "skip", "bad", "hang"}
                                             ELSE {"cmd", "hang"})]
  /\ code \in [1 .. N -> ExitCodes]
  /\ mainpc = "start"
  /\ idx = 0
  /\ wpc = [w \in Workers(K) |-> "done"]
  /\ wtask = [w \in Workers(K) |-> 0]
  /\ ustate = [u \in 1 .. N |-> "new"]
  /\ spawns = [u \in 1 .. N |-> 0]
  /\ failed = {}
  /\ hadError = FALSE
  /\ exitStatus = -1
  \* update-env is not running
  /\ eArgs = <<>> /\ eEnv = <<>> /\ fs = <<>> /\ epc = "done"
  /\ eMerged = <<>> /\ eUpdated = <<>> /\ eUpdates = <<>> /\ eMissing = <<>>
  /\ eWarned = <<>> /\ eStdout = <<"none">> /\ eWrites = <<>> /\ eExit = 0
  \* no rewriting script is running
  /\ rScript = "none" /\ rDry = FALSE /\ rIdx = 0 /\ rpc = "done" /\ rName = "other"
  /\ rDisk = <<>> /\ rOrig = <<>> /\ rOut = NoOutput /\ rWrote = FALSE
  /\ rBackup = NoFile /\ rMsg = "none" /\ rTotal = 0 /\ rBad = 0 /\ rExit = 0
  \* update-packagejson is not running
  /\ dScript = "none" /\ dDisk = <<>> /\ dBefore = <<>> /\ dAfter = <<>>
  /\ dRun = 0 /\ dCall = 0 /\ dpc = "exited" /\ dExit = 0
  \* no codemod is being applied
  /\ mScript = "none" /\ mPath = "other" /\ mSrc = <<>> /\ mPrev = <<>> /\ mApps = 0
  \* no sequential runner is running
  /\ pScript = "none" /\ pTools = {} /\ pOpts = <<>> /\ pFound = <<>> /\ pCodes = <<>>
  /\ ppc = "exited" /\ pOrder = <<>> /\ pPos = 0 /\ pChild = <<>> /\ pCmds = <<>> /\ pExit = 0
  \* transform-docker-compose is not running
  /\ cDisk = <<>> /\ cFirst = <<>> /\ cFiles = <<>> /\ cPos = 0 /\ cRun = 0 /\ cpc = "done"
  \* no sync-upstream script is running
  /\ sScript = "none" /\ sCodes = <<>> /\ sExit = 0

RunNext ==
  \/ RunStart
  \/ \E w \in DOMAIN wpc : WorkerPick(w)
  \/ \E w \in DOMAIN wpc : BuildPrep(w)
  \/ \E u \in Units : ChildExit(u)
  \/ \E w \in DOMAIN wpc : WorkerResume(w)
  \/ \E w \in DOMAIN wpc : WorkerDone(w)
  \/ RunJoin
  \/ TestLoop
  \/ \E u \in Units : TestResume(u)
  \/ TestBatchJoin

\* ===================================================== update-packagejson
\* A manifest is a JSON text whose value is the sequence of its dependency
\* sections in key order, each <<key, block>>; a block is a sequence of
\* <<name, version>> entries in key order.  Other keys are never touched.
DepPaths == {"package.json", "api/app/package.json", "frontend/package.json",
             "client/package.json"}

BadManifest == [fmt |-> "bad", val |-> <<>>]       \* a text JSON.parse rejects
NoManifest == [fmt |-> "enoent", val |-> <<>>]     \* the path does not exist

HasKey(obj, k) == \E i \in 1 .. Len(obj) : obj[i][1] = k

\* obj[k], None if the key is absent
GetKey(obj, k) ==
  IF HasKey(obj, k) THEN Some(obj[CHOOSE i \in 1 .. Len(obj) : obj[i][1] = k][2]) ELSE None

\* obj[k] = v: an existing key keeps its position, a new key goes last
SetKey(obj, k, v) ==
  IF HasKey(obj, k) THEN [i \in 1 .. Len(obj) |-> IF obj[i][1] = k THEN <<k, v>> ELSE obj[i]]
  ELSE Append(obj, <<k, v>>)

RECURSIVE Merge(_, _)
\* { ...block, ...deps } / the loop block[name] = version
Merge_append(block, deps) == block \o deps
Merge(block, deps) ==
  IF deps = <<>> THEN block
  ELSE Merge(SetKey(block, deps[1][1], deps[1][2]), Tail(deps))

\* pkg[section] || {}
OrEmpty(opt) == IF opt.has THEN opt.val ELSE <<>>

\* the object ensureDeps stringifies (both copies of update-packagejson.js)
EnsureDepsObject(pkg, deps, dev) ==
  LET section == IF dev THEN "devDependencies" ELSE "dependencies"
  IN  SetKey(pkg, section, Merge(OrEmpty(GetKey(pkg, section)), deps))

\* expressRx = /^express($|[-/])/i on the names that occur
MatchesExpress(name) == name \in {"express", "express-session"}

\* "Strip matching packages" for one field, which stays in place even if empty
StripField(pkg, field) ==
  IF ~HasKey(pkg, field) THEN pkg
  ELSE SetKey(pkg, field,
              SelectSeq(GetKey(pkg, field).val, LAMBDA e : ~MatchesExpress(e[1])))

\* the object syncPackage stringifies
SyncPackageObject(pkg, addDeps, addDev) ==
  LET stripped == StripField(StripField(pkg, "dependencies"), "devDependencies")
      withDeps == SetKey(stripped, "dependencies",
                         Merge(OrEmpty(GetKey(stripped, "dependencies")), addDeps))
  IN  SetKey(withDeps, "devDependencies",
             Merge(OrEmpty(GetKey(withDeps, "devDependencies")), addDev))

\* the calls at the bottom of each script
EnsureACalls ==
  << [path |-> "api/app/package.json", dev |-> FALSE,
      deps |-> << <<"elysia", "^1.5.0">>, <<"@elysiajs/static", "^1.0.0">> >>] >>

EnsureBCalls(frontendPath) ==
  << [path |-> "package.json", dev |-> TRUE,
      deps |-> << <<"jscodeshift", "^17.3.0">> >>],
     [path |-> "api/app/package.json", dev |-> FALSE,
      deps |-> << <<"express", "^5.1.0">> >>],
     [path |-> frontendPath, dev |-> FALSE,
      deps |-> << <<"@opentelemetry/api", "^1.9.0">>,
                  <<"@opentelemetry/sdk-trace-web", "^2.0.0">>,
                  <<"@opentelemetry/sdk-trace-base", "^2.0.0">> >>] >>

\* fs.existsSync(frontend/package.json) ? 'frontend/package.json' : 'client/package.json'
FrontendPath(disk) ==
  IF disk["frontend/package.json"] # NoManifest THEN "frontend/package.json"
  ELSE "client/package.json"

SyncCalls ==
  << [path |-> "package.json",
      addDeps |-> <<>>,
      addDev |-> << <<"unified", "^11.0.5">>, <<"rehype-parse", "^9.0.1">>,
                    <<"rehype-stringify", "^9.0.3">>, <<"unist-util-visit", "^5.0.0">>,
                    <<"jscodeshift", "^17.3.0">>, <<"@types/jscodeshift", "^17.3.0">> >>],
     [path |-> "api/app/package.json",
      addDeps |-> << <<"elysia", "^1.2.25">>, <<"@elysiajs/static", "^1.2.0">>,
                     <<"@opentelemetry/sdk-node", "^0.39.0">>,
                     <<"@opentelemetry/auto-instrumentations-node", "^0.39.0">>,
                     <<"@opentelemetry/exporter-trace-otlp-http", "^0.39.0">>,
                     <<"@opentelemetry/resources", "^1.12.0">>,
                     <<"@opentelemetry/semantic-conventions", "^1.9.0">> >>,
      addDev |-> <<>>],
     [path |-> "client/package.json",
      addDeps |-> << <<"@opentelemetry/api", "^1.9.0">>,
                     <<"@opentelemetry/sdk-trace-base", "^2.0.0">>,
                     <<"@opentelemetry/sdk-trace-web", "^2.0.0">> >>,
      addDev |-> <<>>] >>

\* ---- inputs of update-packagejson
OldEntries == { <<"express", "^4.18.2">>, <<"elysia", "^0.8.0">>, <<"zod", "^3.22.0">> }
OldBlocks ==
  {b \in UNION {[1 .. k -> OldEntries] : k \in 0 .. MaxDeps} :
     \A i, j \in 1 .. Len(b) : i # j => b[i] # b[j]}
OldDevBlocks == { <<>>, << <<"express-session", "^1.17.0">>, <<"jscodeshift", "^0.15.0">> >> }
ManifestVals ==
  {<<>>}
    \cup {<< <<"dependencies", b>> >> : b \in OldBlocks}
    \cup {<< <<"devDependencies", d>> >> : d \in OldDevBlocks}
    \cup {<< <<"dependencies", b>>, <<"devDependencies", d>> >> : b \in OldBlocks, d \in OldDevBlocks}
    \cup {<< <<"devDependencies", d>>, <<"dependencies", b>> >> : b \in OldBlocks, d \in OldDevBlocks}
ManifestTexts == [fmt : {"canon", "loose"}, val : ManifestVals] \cup {BadManifest, NoManifest}
RootTexts ==
  { NoManifest, BadManifest, [fmt |-> "loose", val |-> <<>>],
    [fmt |-> "canon",
     val |-> << <<"devDependencies", << <<"jscodeshift", "^0.15.0">>, <<"express", "^4.18.2">> >> >> >>] }
ClientTexts ==
  { NoManifest, [fmt |-> "loose", val |-> << <<"dependencies", << <<"@opentelemetry/api", "^1.0.0">> >> >> >>] }

DepInit ==
  /\ dScript \in {"ensureA", "ensureB", "sync"}
  /\ \E root \in RootTexts, api \in ManifestTexts, front \in ClientTexts, client \in ClientTexts :
       dDisk = [p \in DepPaths |->
                  CASE p = "package.json" -> root
                    [] p = "api/app/package.json" -> api
                    [] p = "frontend/package.json" -> front
                    [] OTHER -> client]
  /\ dBefore = dDisk
  /\ dAfter = <<>>
  /\ dRun = 1
  /\ dCall = 1
  /\ dpc = "run"
  /\ dExit = -1
  \* the orchestrators are not running
  /\ script = "none" /\ N = 0 /\ K = 1 /\ dryRun = FALSE /\ hasBun = TRUE
  /\ kind = <<>> /\ code = <<>> /\ mainpc = "exited" /\ idx = 0
  /\ wpc = <<>> /\ wtask = <<>> /\ ustate = <<>> /\ spawns = <<>>
  /\ failed = {} /\ hadError = FALSE /\ exitStatus = 0
  \* update-env is not running
  /\ eArgs = <<>> /\ eEnv = <<>> /\ fs = <<>> /\ epc = "done"
  /\ eMerged = <<>> /\ eUpdated = <<>> /\ eUpdates = <<>> /\ eMissing = <<>>
  /\ eWarned = <<>> /\ eStdout = <<"none">> /\ eWrites = <<>> /\ eExit = 0
  \* no rewriting script is running
  /\ rScript = "none" /\ rDry = FALSE /\ rIdx = 0 /\ rpc = "done" /\ rName = "other"
  /\ rDisk = <<>> /\ rOrig = <<>> /\ rOut = NoOutput /\ rWrote = FALSE
  /\ rBackup = NoFile /\ rMsg = "none" /\ rTotal = 0 /\ rBad = 0 /\ rExit = 0
  \* no codemod is being applied
  /\ mScript = "none" /\ mPath = "other" /\ mSrc = <<>> /\ mPrev = <<>> /\ mApps = 0
  \* no sequential runner is running
  /\ pScript = "none" /\ pTools = {} /\ pOpts = <<>> /\ pFound = <<>> /\ pCodes = <<>>
  /\ ppc = "exited" /\ pOrder = <<>> /\ pPos = 0 /\ pChild = <<>> /\ pCmds = <<>> /\ pExit = 0
  \* transform-docker-compose is not running
  /\ cDisk = <<>> /\ cFirst = <<>> /\ cFiles = <<>> /\ cPos = 0 /\ cRun = 0 /\ cpc = "done"
  \* no sync-upstream script is running
  /\ sScript = "none" /\ sCodes = <<>> /\ sExit = 0

\* the process ends: process.exit(1), an uncaught exception (status 1), or
\* the end of the script (status 0)
DepExit(status) ==
  /\ dpc' = "exited"
  /\ dExit' = status
  /\ UNCHANGED dCall

\* a call returned: on to the next one, or the script ends
DepReturn(calls) ==
  IF dCall < Len(calls) THEN dCall' = dCall + 1 /\ UNCHANGED <<dpc, dExit>>
  ELSE DepExit(0)

\* update-packagejson.js, first copy: ensureDeps(pkgPath, deps, dev)
EnsureDepsA ==
  /\ dScript = "ensureA" /\ dpc = "run"
  /\ LET c == EnsureACalls[dCall]
         text == dDisk[c.path]
     IN  IF text = NoManifest \/ text = BadManifest
           THEN \* readFileSync or JSON.parse throws, nothing catches it
                UNCHANGED dDisk /\ DepExit(1)
           ELSE /\ dDisk' = [dDisk EXCEPT
                               ![c.path] = Stringify(EnsureDepsObject(text.val, c.deps, c.dev))]
                /\ DepReturn(EnsureACalls)
  /\ UNCHANGED <<dScript, dBefore, dAfter, dRun>>
  /\ UNCHANGED notDep

\* update-packagejson.js, second copy: ensureDeps(relPath, deps, dev)
EnsureDepsB ==
  /\ dScript = "ensureB" /\ dpc = "run"
  /\ LET calls == EnsureBCalls(FrontendPath(dDisk))
         c == calls[dCall]
         text == dDisk[c.path]
     IN  IF text = NoManifest
           THEN \* "Skipping missing <relPath>"
                UNCHANGED dDisk /\ DepReturn(calls)
           ELSE IF text = BadManifest
             THEN \* "Failed to parse <relPath>", process.exit(1)
                  UNCHANGED dDisk /\ DepExit(1)
             ELSE /\ dDisk' = [dDisk EXCEPT
                                 ![c.path] = Stringify(EnsureDepsObject(text.val, c.deps, c.dev))]
                  /\ DepReturn(calls)
  /\ UNCHANGED <<dScript, dBefore, dAfter, dRun>>
  /\ UNCHANGED notDep

\* update-packagejson.js, third copy: syncPackage(pkgPath, { ... })
SyncPackage ==
  /\ dScript = "sync" /\ dpc = "run"
  /\ LET c == SyncCalls[dCall]
         text == dDisk[c.path]
     IN  IF text = NoManifest \/ text = BadManifest
           THEN \* readFileSync or JSON.parse throws, nothing catches it
                UNCHANGED dDisk /\ DepExit(1)
           ELSE /\ dDisk' = [dDisk EXCEPT
                               ![c.path] = Stringify(SyncPackageObject(text.val, c.addDeps, c.addDev))]
                /\ DepReturn(SyncCalls)
  /\ UNCHANGED <<dScript, dBefore, dAfter, dRun>>
  /\ UNCHANGED notDep

\* the script is run again on the manifests the first run left
DepRunAgain ==
  /\ dpc = "exited" /\ dRun = 1
  /\ dAfter' = dDisk
  /\ dRun' = 2
  /\ dCall' = 1
  /\ dpc' = "run"
  /\ dExit' = -1
  /\ UNCHANGED <<dScript, dDisk, dBefore>>
  /\ UNCHANGED notDep

DepNext ==
  \/ EnsureDepsA
  \/ EnsureDepsB
  \/ SyncPackage
  \/ DepRunAgain

\* ================================================================ codemods
\* A source file is the sequence of its top-level statements, as the parser
\* reads them.

\* ---- transform-env-access (second module of codemods/transform-ci-config.js)
\* Statements: [s, e] with s the statement's form and e its expression.
\* Expressions: a literal, a member access <base>.env.<key> or
\* <base>.env[<key>], or an infix expression with two operands.
NoExpr == [t |-> "none"]
Lit == [t |-> "lit"]
\* form: "dot" (.KEY), "Literal" / "StringLiteral" (['KEY'], by the node type
\* the parser gives a string), "dyn" (any other computed key)
Access(base, key, form) == [t |-> "member", base |-> base, key |-> key, form |-> form]
Infix(type, op, l, r) == [t |-> "infix", type |-> type, op |-> op, l |-> l, r |-> r]

\* /[\\/]client[\\/]|vite\.config\./.test(filePath)
UseImportMeta(path) == path = "client"

\* 1) strip dotenv usage: the three shapes that are removed
IsDotenv(st) == st.s \in {"requireDotenvConfig", "importDotenv", "dotenvConfig"}

\* buildEnv(key)
BuildEnv_fallback(key, client) ==
  Infix("LogicalExpression", "||", Access("process", key, "dot"), Lit)
BuildEnv(key, client) == Access(IF client THEN "import.meta" ELSE "Bun", key, "dot")

\* node.object is process.env and the key can be read off the property
IsProcessEnvKey(e) == e.t = "member" /\ e.base = "process" /\ e.form \in {"dot", "Literal"}

\* 2) transform fallbacks (||) -> nullish (??), for one statement's expression
Nullish(e, client) ==
  IF e.t = "infix" /\ e.type = "BinaryExpression" /\ e.op = "||" /\ IsProcessEnvKey(e.l)
    THEN IF client
           THEN Infix("LogicalExpression", "??", BuildEnv(e.l.key, client),
                      Infix("LogicalExpression", "??", BuildEnv(e.l.key, client), e.r))
           ELSE Infix("LogicalExpression", "??", BuildEnv(e.l.key, client), e.r)
    ELSE e

RECURSIVE ReplaceEnv(_, _)
\* 3) replace direct process.env.KEY, everywhere in an expression
ReplaceEnv(e, client) ==
  IF IsProcessEnvKey(e) THEN BuildEnv(e.key, client)
  ELSE IF e.t = "infix"
    THEN Infix(e.type, e.op, ReplaceEnv(e.l, client), ReplaceEnv(e.r, client))
    ELSE e

RECURSIVE Reparse(_)
\* root.toSource() read back by the parser: an infix expression that was built
\* as a LogicalExpression is one; everything else is read as it was written
Reparse(e) ==
  IF e.t = "infix" THEN Infix(e.type, e.op, Reparse(e.l), Reparse(e.r)) ELSE e

\* transformer(file, api) of transform-env-access
EnvAccessTransform(src, path) ==
  LET client == UseImportMeta(path)
      kept == SelectSeq(src, LAMBDA st : ~IsDotenv(st))
  IN  [i \in 1 .. Len(kept) |->
         IF kept[i].s = "expr"
           THEN [s |-> "expr", e |-> Reparse(ReplaceEnv(Nullish(kept[i].e, client), client))]
           ELSE kept[i]]

\* ---- transform-telemetry.js
\* Statements: [s, name, arg, exported].  s = "import" (name: the module),
\* "decl" (`const <name> = new Elysia()`, exported or not), "use"
\* (`<name>.use(<arg>(...))`) or "other".
IMPORT_SOURCE == "@elysia/opentelemetry"
IMPORT_NAME == "opentelemetry"
ImportOf(module) == [s |-> "import", name |-> module, arg |-> "", exported |-> FALSE]
AppDecl(var, exported) == [s |-> "decl", name |-> var, arg |-> "", exported |-> exported]
UseCall(var, plugin) == [s |-> "use", name |-> var, arg |-> plugin, exported |-> FALSE]
OtherStmt == [s |-> "other", name |-> "", arg |-> "", exported |-> FALSE]

\* positions of the statements of src that satisfy P
Where(src, P(_)) == {i \in 1 .. Len(src) : P(src[i])}

InsertAt(src, k, st) == SubSeq(src, 1, k) \o <<st>> \o SubSeq(src, k + 1, Len(src))

Max(S) == CHOOSE m \in S : \A o \in S : o <= m

\* 2) ensure the opentelemetry import exists: after the last import, or first
EnsureImport(src) ==
  LET imports == Where(src, LAMBDA st : st.s = "import")
  IN  IF \E i \in imports : src[i].name = IMPORT_SOURCE THEN src
      ELSE IF imports # {} THEN InsertAt(src, Max(imports), ImportOf(IMPORT_SOURCE))
      ELSE <<ImportOf(IMPORT_SOURCE)>> \o src

\* hasUsage for varName, on the statements of src
HasUsage(src, varName) ==
  \E i \in 1 .. Len(src) : src[i] = UseCall(varName, IMPORT_NAME)

RECURSIVE InjectUses(_, _, _)
\* 3) for each app var from position i on, insert <var>.use(opentelemetry(...))
\* after its declaration if no such call exists; `used` are the variables
\* for which one exists by now.  j(path.parent).insertAfter needs the
\* declaration to sit in a statement list: under `export` its parent is the
\* export declaration and insertAfter throws.
InjectUses(src, i, used) ==
  IF i > Len(src) THEN [ok |-> TRUE, out |-> <<>>]
  ELSE IF src[i].s = "decl" /\ src[i].name \notin used
    THEN IF src[i].exported THEN [ok |-> FALSE, out |-> <<>>]
         ELSE LET rest == InjectUses(src, i + 1, used \cup {src[i].name})
              IN  [ok |-> rest.ok, out |-> <<src[i], UseCall(src[i].name, IMPORT_NAME)>> \o rest.out]
    ELSE LET rest == InjectUses(src, i + 1, used)
         IN  [ok |-> rest.ok, out |-> <<src[i]>> \o rest.out]

\* what jscodeshift leaves in the file after running transformer(fileInfo, api):
\* the source unchanged when the transformer returns null or throws
TelemetryTransform(src) ==
  IF Where(src, LAMBDA st : st.s = "decl") = {} THEN src
  ELSE LET withImport == EnsureImport(src)
           r == InjectUses(withImport, 1, {v \in {"app", "api"} : HasUsage(withImport, v)})
       IN  IF r.ok THEN r.out ELSE src

\* ---- inputs of transform-telemetry: files with at most one opentelemetry
\* import and at most one <var>.use(opentelemetry(...)) per variable
TelemetryStmts ==
  {ImportOf(IMPORT_SOURCE), ImportOf("elysia"), OtherStmt}
    \cup {AppDecl(v, x) : v \in {"app", "api"}, x \in BOOLEAN}
    \cup {UseCall("app", p) : p \in {IMPORT_NAME, "cors"}}
TelemetrySources ==
  {src \in UNION {[1 .. k -> TelemetryStmts] : k \in 0 .. MaxStmts} :
     \A i, j \in 1 .. Len(src) :
       (i # j /\ src[i].s \in {"import", "use", "decl"}) => src[i] # src[j]}

\* ---- insert-pluginloader.js
\* The client entrypoint is [imports, call, arg]: the modules of its import
\* declarations in order, the form of its render call, and the call's first
\* argument as the chain of JSX elements from the outermost to the innermost
\* (<<>> if the argument is not a JSX element).  An element is [type, name],
\* type being the node type of its name.
PLUGIN_LOADER == "./plugin-runtime/PluginLoader"
JsxId(name) == [type |-> "JSXIdentifier", name |-> name]
\* <React.StrictMode>: the parser gives a dotted name the type JSXMemberExpression
JsxMember(name) == [type |-> "JSXMemberExpression", name |-> name]

\* the module is loaded by jscodeshift before any file is transformed.  Line 14
\* reads `/client\\/src\\/index\\.(t|j)sx?$/.test(file.path)`: the regular
\* expression literal ends at its second `/` (after `client\\`), what follows
\* are not valid flags, and the module does not parse.
TransformerLoads == FALSE

\* the test the regular expression of line 14 is written for
IsClientEntry(path) == path = "entry"

\* wrapWithPluginLoader(j, node)
WrapWithPluginLoader(node) ==
  IF node = <<>> THEN node
  ELSE IF node[1] = JsxId("PluginLoader") THEN node
  ELSE IF node[1] = JsxId("React.StrictMode")
    THEN IF Len(node) >= 2 /\ node[2].type = "JSXIdentifier" /\ node[2].name # "PluginLoader"
           THEN <<node[1], JsxId("PluginLoader")>> \o Tail(node)
           ELSE node
    ELSE <<JsxId("PluginLoader")>> \o node

\* the body of transformer(file, api)
InsertPluginLoader(src, path) ==
  IF ~IsClientEntry(path) THEN src
  ELSE LET hasImport == \E i \in 1 .. Len(src.imports) : src.imports[i] = PLUGIN_LOADER
       IN  [imports |-> IF ~hasImport /\ Len(src.imports) > 0
                          THEN <<PLUGIN_LOADER>> \o src.imports ELSE src.imports,
            call |-> src.call,
            arg |-> IF src.call \in {"root.render", "ReactDOM.render"}
                      THEN WrapWithPluginLoader(src.arg) ELSE src.arg]

\* what jscodeshift leaves in the file
PluginLoaderTransform(src, path) ==
  IF TransformerLoads THEN InsertPluginLoader(src, path) ELSE src

\* ---- inputs of insert-pluginloader
JsxWrappers == {JsxId("PluginLoader"), JsxMember("React.StrictMode")}
JsxArgs ==
  {<<>>} \cup {w \o <<JsxId("App")>> : w \in UNION {[1 .. k -> JsxWrappers] : k \in 0 .. MaxDepth}}
EntrySources ==
  [imports : UNION {[1 .. k -> {"react", PLUGIN_LOADER}] : k \in 0 .. MaxStmts},
   call : {"root.render", "ReactDOM.render", "createRoot().render"},
   arg : JsxArgs]

\* ---- inputs of transform-env-access
EnvAccesses ==
  {Access("process", "A", f) : f \in {"dot", "Literal", "StringLiteral", "dyn"}}
    \cup {Access("Bun", "A", "dot")}
EnvExprs ==
  EnvAccesses
    \cup {Infix(ty, "||", l, r) :
            ty \in {"LogicalExpression", "BinaryExpression"},
            l \in {Access("process", "A", "dot"), Access("process", "A", "StringLiteral"),
                   Access("Bun", "A", "dot")},
            r \in {Lit, Access("process", "B", "dot")}}
EnvStmts ==
  {[s |-> k, e |-> NoExpr] : k \in {"requireDotenvConfig", "importDotenv", "dotenvConfig", "other"}}
    \cup {[s |-> "expr", e |-> x] : x \in EnvExprs}
EnvSources == UNION {[1 .. k -> EnvStmts] : k \in 0 .. MaxStmts}

\* ---- transform-prettier-config
\* A config is [form, singleQuote, semi, bracketSpacing, overrides]: form
\* "object" for a text that parses and holds a config object, "none" for a JS
\* module without one, "bad" for a text the parser rejects; the three options
\* are TRUE when they are `true`; overrides is None or Some(array).  An
\* override is [ts, opts]: ts when its files hold a name ending in .ts or
\* .tsx, opts "absent" (no options), "noparser" (options without parser) or
\* the parser's name.
TsOverride == [ts |-> TRUE, opts |-> "typescript"]

\* o.files.some(f => f.endsWith('.ts') || f.endsWith('.tsx')) for some o
HasTs(arr) == \E i \in 1 .. Len(arr) : arr[i].ts

\* the JSON branch: the returned text, or the source for `return null`
PrettierJson(cfg) ==
  IF cfg.form # "object" THEN cfg
  ELSE
    LET changed1 == ~cfg.singleQuote \/ ~cfg.semi \/ ~cfg.bracketSpacing
        changed2 == changed1 \/ ~cfg.overrides.has
        arr == IF cfg.overrides.has THEN cfg.overrides.val ELSE <<>>
        changed == changed2 \/ ~HasTs(arr)
        arr2 == IF ~HasTs(arr) THEN Append(arr, TsOverride)
                ELSE [i \in 1 .. Len(arr) |->
                        IF arr[i].ts /\ arr[i].opts # "typescript"
                          THEN [arr[i] EXCEPT !.opts = "typescript"] ELSE arr[i]]
    IN  IF changed
          THEN [form |-> "object", singleQuote |-> TRUE, semi |-> TRUE,
                bracketSpacing |-> TRUE, overrides |-> Some(arr2)]
          ELSE cfg

\* the JS branch: the printed module, or the source for `return null`
PrettierJs(cfg) ==
  IF cfg.form # "object" THEN cfg
  ELSE
    LET mutated1 == ~cfg.singleQuote \/ ~cfg.semi \/ ~cfg.bracketSpacing
        arr == IF cfg.overrides.has THEN cfg.overrides.val ELSE <<>>
        \* the forEach over the overrides: a parser is pushed only into
        \* options that hold none
        arr2 == [i \in 1 .. Len(arr) |->
                   IF arr[i].ts /\ arr[i].opts = "noparser"
                     THEN [arr[i] EXCEPT !.opts = "typescript"] ELSE arr[i]]
        arr3 == IF HasTs(arr) THEN arr2 ELSE Append(arr2, TsOverride)
        mutated == mutated1 \/ ~cfg.overrides.has \/ arr3 # arr
    IN  IF mutated
          THEN [form |-> "object", singleQuote |-> TRUE, semi |-> TRUE,
                bracketSpacing |-> TRUE, overrides |-> Some(arr3)]
          ELSE cfg

PrettierTransform(cfg, path) ==
  IF path = "json" THEN PrettierJson(cfg) ELSE PrettierJs(cfg)

PrettierOverrides ==
  [ts : BOOLEAN, opts : {"absent", "noparser", "babel", "typescript"}]
PrettierObjects ==
  [form : {"object"}, singleQuote : BOOLEAN, semi : BOOLEAN, bracketSpacing : BOOLEAN,
   overrides : {None} \cup
     {Some(a) : a \in UNION {[1 .. k -> PrettierOverrides] : k \in 0 .. MaxStmts}}]
PrettierSources(path) ==
  PrettierObjects
    \cup {[(CHOOSE c \in PrettierObjects : TRUE) EXCEPT !.form = f] :
            f \in (IF path = "json" THEN {"bad"} ELSE {"bad", "none"})}

\* ---- transform-dockerfile
\* A Dockerfile is the sequence of its instructions.  FROM holds its
\* arguments as words; RUN its commands (each a sequence of words) and the
\* separator between them; CMD / ENTRYPOINT the form and the arguments of the
\* text it was first written with, and how many times that text has been
\* wrapped into ["bun","run","<text>"].
BUN_IMAGE == "oven/bun:edge-alpine"

\* the FROM edit: the image and the argument after it are replaced by the
\* image name and the text that follows the second argument
FromEdit(args) ==
  IF args = <<>> THEN args ELSE <<BUN_IMAGE>> \o SubSeq(args, 3, Len(args))

\* the callback of parts.map
MapRunCmd(cmd) ==
  LET has(w) == \E i \in 1 .. Len(cmd) : cmd[i] = w IN
  IF cmd # <<>> /\ cmd[1] \in {"npm", "yarn"}
    THEN IF has("install") THEN <<"bun", "install", "--production">>
         ELSE IF has("prune") THEN <<"bun", "prune", "--production">>
         ELSE IF has("build") THEN <<"bun", "run", "scripts/bun-build-all.js">>
         ELSE cmd
    ELSE cmd

\* instr.getExecArgs(): the strings of an exec-form instruction; a wrapped
\* instruction is exec-form and starts with "bun"
GetExecArgs(instr) ==
  IF instr.wraps > 0 THEN Some(<<"bun", "run", "text">>)
  ELSE IF instr.form = "exec" THEN Some(instr.args) ELSE None

\* the edit of one instruction
EditInstr(instr) ==
  CASE instr.kw = "FROM" -> [instr EXCEPT !.args = FromEdit(@)]
    [] instr.kw = "RUN" ->
         [instr EXCEPT !.cmds = [i \in 1 .. Len(@) |-> MapRunCmd(@[i])], !.sep = "&&"]
    [] instr.kw \in {"CMD", "ENTRYPOINT"} ->
         LET args == GetExecArgs(instr) IN
         IF args.has /\ args.val # <<>> /\ args.val[1] = "node"
           THEN \* exec-form swap
                [instr EXCEPT !.args = <<"bun", "run">> \o Tail(args.val)]
           ELSE \* shell-form fallback
                [instr EXCEPT !.wraps = @ + 1]
    [] OTHER -> instr

\* transformFile: the content of the file after the run
DockerfileTransform(df) == [i \in 1 .. Len(df) |-> EditInstr(df[i])]

DockerfileInstrs ==
  [kw : {"FROM"}, args : {<<"node:18">>, <<"node:18", "AS", "build">>, <<BUN_IMAGE>>}]
  \cup [kw : {"RUN"}, sep : {"&&", ";"},
        cmds : {<< <<"npm", "install">> >>, << <<"npm", "ci">>, <<"yarn", "build">> >>,
                << <<"bun", "install", "--production">> >>}]
  \cup [kw : {"CMD", "ENTRYPOINT"}, form : {"shell"}, args : {<<"node", "server.js">>},
        wraps : {0}]
  \cup [kw : {"CMD", "ENTRYPOINT"}, form : {"exec"},
        args : {<<"node", "server.js">>, <<"bun", "run", "server.js">>}, wraps : {0}]
  \cup [kw : {"COPY"}, args : {<<".", ".">>}]
Dockerfiles == UNION {[1 .. k -> DockerfileInstrs] : k \in 1 .. MaxStmts}

\* ---- insert-pluginserver, update-index-html, the client/index.html injection
\* api/app/index.ts is the sequence of its top-level statements; an HTML
\* document is the sequence of its elements (update-index-html) or of its
\* lines (the codemod), where "root" is <div id="root">, "pluginScript" the
\* injected script element and "bootstrap" the four injected lines.
PluginServerImport == "import pluginServer"
PluginServerUse == "app.use(pluginServer)"
IsImport(st) == st \in {"import other", PluginServerImport}
IsAppUse(st) == st \in {"app.use(other)", PluginServerUse}

\* body.findIndex(n => n.type !== 'ImportDeclaration'), body.length if none
FirstNonImport(body) ==
  IF \A i \in 1 .. Len(body) : IsImport(body[i]) THEN Len(body)
  ELSE (CHOOSE i \in 1 .. Len(body) :
          ~IsImport(body[i]) /\ \A k \in 1 .. i - 1 : IsImport(body[k])) - 1

\* insert-pluginserver: transformer
InsertPluginServer(body, path) ==
  IF path # "entry" THEN body
  ELSE LET impIdx == FirstNonImport(body)     \* `idx` of the transformer
           body1 == InsertAt(body, impIdx, PluginServerImport)
           uses == Where(body1, IsAppUse)
           insertAt == IF uses # {} THEN Max(uses) ELSE impIdx + 1
       IN  InsertAt(body1, insertAt, PluginServerUse)

\* update-index-html: the script element goes after the first <div id="root">
UpdateIndexHtml(doc) ==
  IF \E i \in 1 .. Len(doc) : doc[i] = "root"
    THEN InsertAt(doc, CHOOSE i \in 1 .. Len(doc) :
                         doc[i] = "root" /\ \A k \in 1 .. i - 1 : doc[k] # "root",
                  "pluginScript")
    ELSE doc

RECURSIVE InjectBootstrap(_)
\* the codemod's loop over the lines: every root line is followed by the block
InjectBootstrap(lines) ==
  IF lines = <<>> THEN <<>>
  ELSE (IF lines[1] = "root" THEN <<"root", "bootstrap">> ELSE <<lines[1]>>)
       \o InjectBootstrap(Tail(lines))

\* the client/index.html codemod: transformer
InjectIndexHtml(lines, path) == IF path # "entry" THEN lines ELSE InjectBootstrap(lines)

ServerStmts == {"import other", PluginServerImport, "app.use(other)", PluginServerUse, "stmt"}
ServerSources == UNION {[1 .. k -> ServerStmts] : k \in 0 .. MaxStmts}
IndexHtmlSources ==
  UNION {[1 .. k -> {"root", "div", "pluginScript", "bootstrap"}] : k \in 0 .. MaxStmts}

ModScripts == {"env", "telemetry", "pluginloader", "prettier", "dockerfile",
               "pluginserver", "updatehtml", "injecthtml"}

\* the paths a codemod is applied to
ModPaths(sc) ==
  CASE sc = "env" -> {"server", "client"}
    [] sc = "telemetry" -> {"server"}
    [] sc \in {"pluginloader", "pluginserver", "injecthtml"} -> {"entry", "other"}
    [] sc = "prettier" -> {"json", "js"}
    [] OTHER -> {"other"}

\* the sources a codemod is applied to
ModSources(sc, path) ==
  CASE sc = "env" -> EnvSources
    [] sc = "telemetry" -> TelemetrySources
    [] sc = "pluginloader" -> EntrySources
    [] sc = "prettier" -> PrettierSources(path)
    [] sc = "pluginserver" -> ServerSources
    [] sc \in {"updatehtml", "injecthtml"} -> IndexHtmlSources
    [] OTHER -> Dockerfiles

ModInit ==
  /\ mScript \in ModScripts
  /\ mPath \in ModPaths(mScript)
  /\ mSrc \in ModSources(mScript, mPath)
  /\ mPrev = <<>>
  /\ mApps = 0
  \* the orchestrators are not running
  /\ script = "none" /\ N = 0 /\ K = 1 /\ dryRun = FALSE /\ hasBun = TRUE
  /\ kind = <<>> /\ code = <<>> /\ mainpc = "exited" /\ idx = 0
  /\ wpc = <<>> /\ wtask = <<>> /\ ustate = <<>> /\ spawns = <<>>
  /\ failed = {} /\ hadError = FALSE /\ exitStatus = 0
  \* update-env is not running
  /\ eArgs = <<>> /\ eEnv = <<>> /\ fs = <<>> /\ epc = "done"
  /\ eMerged = <<>> /\ eUpdated = <<>> /\ eUpdates = <<>> /\ eMissing = <<>>
  /\ eWarned = <<>> /\ eStdout = <<"none">> /\ eWrites = <<>> /\ eExit = 0
  \* no rewriting script is running
  /\ rScript = "none" /\ rDry = FALSE /\ rIdx = 0 /\ rpc = "done" /\ rName = "other"
  /\ rDisk = <<>> /\ rOrig = <<>> /\ rOut = NoOutput /\ rWrote = FALSE
  /\ rBackup = NoFile /\ rMsg = "none" /\ rTotal = 0 /\ rBad = 0 /\ rExit = 0
  \* update-packagejson is not running
  /\ dScript = "none" /\ dDisk = <<>> /\ dBefore = <<>> /\ dAfter = <<>>
  /\ dRun = 0 /\ dCall = 0 /\ dpc = "exited" /\ dExit = 0
  \* no sequential runner is running
  /\ pScript = "none" /\ pTools = {} /\ pOpts = <<>> /\ pFound = <<>> /\ pCodes = <<>>
  /\ ppc = "exited" /\ pOrder = <<>> /\ pPos = 0 /\ pChild = <<>> /\ pCmds = <<>> /\ pExit = 0
  \* transform-docker-compose is not running
  /\ cDisk = <<>> /\ cFirst = <<>> /\ cFiles = <<>> /\ cPos = 0 /\ cRun = 0 /\ cpc = "done"
  \* no sync-upstream script is running
  /\ sScript = "none" /\ sCodes = <<>> /\ sExit = 0

\* jscodeshift applies the transformer to the file and writes what it returns
Applied(out) ==
  /\ mApps < MaxApps
  /\ mPrev' = mSrc
  /\ mSrc' = out
  /\ mApps' = mApps + 1
  /\ UNCHANGED <<mScript, mPath>>
  /\ UNCHANGED notMod

EnvAccessApply ==
  /\ mScript = "env"
  /\ Applied(EnvAccessTransform(mSrc, mPath))

TelemetryApply ==
  /\ mScript = "telemetry"
  /\ Applied(TelemetryTransform(mSrc))

PluginLoaderApply ==
  /\ mScript = "pluginloader"
  /\ Applied(PluginLoaderTransform(mSrc, mPath))

PrettierApply ==
  /\ mScript = "prettier"
  /\ Applied(PrettierTransform(mSrc, mPath))

\* one run of transform-dockerfile over the file
DockerfileApply ==
  /\ mScript = "dockerfile"
  /\ Applied(DockerfileTransform(mSrc))

PluginServerApply ==
  /\ mScript = "pluginserver"
  /\ Applied(InsertPluginServer(mSrc, mPath))

\* one run of update-index-html
UpdateIndexHtmlApply ==
  /\ mScript = "updatehtml"
  /\ Applied(UpdateIndexHtml(mSrc))

InjectIndexHtmlApply ==
  /\ mScript = "injecthtml"
  /\ Applied(InjectIndexHtml(mSrc, mPath))

ModNext ==
  \/ EnvAccessApply
  \/ TelemetryApply
  \/ PluginLoaderApply
  \/ PrettierApply
  \/ DockerfileApply
  \/ PluginServerApply
  \/ UpdateIndexHtmlApply
  \/ InjectIndexHtmlApply

\* ====================================================== sequential runners
\* run-codemods.js, docker-push.js, docker-build.js: main() runs external
\* commands one after the other.  A command is the sequence of its words.

\* ---- run-codemods.js
DESIRED_ORDER ==
  << "transform-require-to-import.js", "transform-env-access.js",
     "transform-server-index.js", "transform-express-routes-to-elysia.js",
     "transform-middleware.js", "transform-controllers.js",
     "transform-security-middleware.js", "transform-session-auth.js",
     "transform-websockets.js", "transform-db-utils.js",
     "transform-package-json.js", "transform-tsconfig.js",
     "transform-client-html.js", "transform-jest-config.js",
     "transform-ci-config.js", "transform-dockerfile.js",
     "transform-docker-compose.js", "transform-helm-values.js",
     "transform-eslint-config.js", "transform-prettier-config.js",
     "transform-readme.js", "transform-telemetry.js",
     "transform-devcontainer.js", "transform-husky.js",
     "transform-docker-scripts.js", "transform-config-scripts.js",
     "transform-e2e-tests.js" >>

\* files that can be found under codemods/: two that DESIRED_ORDER names
\* (in the opposite of their alphabetical order) and three that it does not
ModNames == {"transform-package-json.js", "transform-husky.js",
             "insert-pluginloader.js", "inject-otel-bun.js", "update-index-html.js"}
\* position of a name under Array.prototype.sort() (UTF-16 code unit order)
ModRank == [n \in ModNames |->
              CASE n = "inject-otel-bun.js" -> 1 [] n = "insert-pluginloader.js" -> 2
                [] n = "transform-husky.js" -> 3 [] n = "transform-package-json.js" -> 4
                [] OTHER -> 5]

Elems(q) == {q[i] : i \in 1 .. Len(q)}

RECURSIVE SortNames(_)
\* Array.from(byName.keys()).sort()
SortNames_asfound(keys) == keys
SortNames(keys) ==
  IF keys = <<>> THEN <<>>
  ELSE LET m == CHOOSE n \in Elems(keys) : \A o \in Elems(keys) : ModRank[n] <= ModRank[o]
       IN  <<m>> \o SortNames(SelectSeq(keys, LAMBDA n : n # m))

\* discoverAndOrderCodemods(), on the basenames glob yielded
DiscoverAndOrder(mods) ==
  LET listed == SelectSeq(DESIRED_ORDER, LAMBDA n : n \in Elems(mods))
      keys == SelectSeq(mods, LAMBDA n : n \notin Elems(listed))
  IN  listed \o SortNames(keys)

\* hasJSC ? "jscodeshift" : "bunx jscodeshift", then "-t", mod
CodemodCmd(tools, mod) ==
  (IF "jscodeshift" \in tools THEN <<"jscodeshift">> ELSE <<"bunx", "jscodeshift">>)
    \o <<"-t", mod>>

\* const { exitCode, success: ok } = await proc.exited: proc.exited resolves to
\* the exit code, a number, which has no `success` property
ReadSuccess(c) == Undefined

\* !ok
Not_never(v) == FALSE
Not(v) == v \in {Undefined, 0}

\* a required tool is missing
CodemodsToolMissing(tools) == "jscodeshift" \notin tools /\ "bunx" \notin tools
DockerToolMissing_never(tools) == FALSE
DockerToolMissing(tools) == "bun" \notin tools \/ "docker" \notin tools

\* ---- inputs of the sequential runners
PipeScripts == {"codemods", "push", "build"}
FoundLists ==
  {q \in UNION {[1 .. k -> ModNames] : k \in 0 .. MaxMods} :
     \A i, j \in 1 .. Len(q) : i # j => q[i] # q[j]}
\* docker-push main(): the steps in the order of the statements
PushSteps_inspectFirst == <<"tag", "inspect", "push", "cosign">>
PushSteps == <<"tag", "push", "inspect", "cosign">>

PipeInit ==
  /\ pScript \in PipeScripts
  /\ pTools \in (IF pScript = "codemods" THEN SUBSET {"bun", "jscodeshift", "bunx"}
                 ELSE SUBSET {"bun", "docker", "cosign"})
  /\ pOpts \in (IF pScript = "push" THEN [registry : BOOLEAN, dockerfile : {TRUE}, context : {TRUE}]
                ELSE IF pScript = "build" THEN [registry : {TRUE}, dockerfile : BOOLEAN, context : BOOLEAN]
                ELSE [registry : {TRUE}, dockerfile : {TRUE}, context : {TRUE}])
  /\ pFound \in (IF pScript = "codemods" THEN FoundLists ELSE {<<>>})
  /\ pCodes \in [1 .. (IF pScript = "codemods" THEN Len(pFound)
                       ELSE IF pScript = "push" THEN Len(PushSteps) ELSE 1) -> ExitCodes]
  /\ ppc = "start"
  /\ pOrder = <<>>
  /\ pPos = 0
  /\ pChild = <<>>
  /\ pCmds = <<>>
  /\ pExit = -1
  \* the orchestrators are not running
  /\ script = "none" /\ N = 0 /\ K = 1 /\ dryRun = FALSE /\ hasBun = TRUE
  /\ kind = <<>> /\ code = <<>> /\ mainpc = "exited" /\ idx = 0
  /\ wpc = <<>> /\ wtask = <<>> /\ ustate = <<>> /\ spawns = <<>>
  /\ failed = {} /\ hadError = FALSE /\ exitStatus = 0
  \* update-env is not running
  /\ eArgs = <<>> /\ eEnv = <<>> /\ fs = <<>> /\ epc = "done"
  /\ eMerged = <<>> /\ eUpdated = <<>> /\ eUpdates = <<>> /\ eMissing = <<>>
  /\ eWarned = <<>> /\ eStdout = <<"none">> /\ eWrites = <<>> /\ eExit = 0
  \* no rewriting script is running
  /\ rScript = "none" /\ rDry = FALSE /\ rIdx = 0 /\ rpc = "done" /\ rName = "other"
  /\ rDisk = <<>> /\ rOrig = <<>> /\ rOut = NoOutput /\ rWrote = FALSE
  /\ rBackup = NoFile /\ rMsg = "none" /\ rTotal = 0 /\ rBad = 0 /\ rExit = 0
  \* update-packagejson is not running
  /\ dScript = "none" /\ dDisk = <<>> /\ dBefore = <<>> /\ dAfter = <<>>
  /\ dRun = 0 /\ dCall = 0 /\ dpc = "exited" /\ dExit = 0
  \* no codemod is being applied
  /\ mScript = "none" /\ mPath = "other" /\ mSrc = <<>> /\ mPrev = <<>> /\ mApps = 0
  \* transform-docker-compose is not running
  /\ cDisk = <<>> /\ cFirst = <<>> /\ cFiles = <<>> /\ cPos = 0 /\ cRun = 0 /\ cpc = "done"
  \* no sync-upstream script is running
  /\ sScript = "none" /\ sCodes = <<>> /\ sExit = 0

\* error(msg) -> Bun.exit(1), or main() returning (status 0)
PipeExit(status) ==
  /\ ppc' = "exited"
  /\ pExit' = status

\* run-codemods main(): Bun version, tool check
CodemodsCheck ==
  /\ pScript = "codemods" /\ ppc = "start"
  /\ pCmds' = (IF "bun" \in pTools THEN Append(pCmds, <<"bun", "--version">>) ELSE pCmds)
  /\ IF CodemodsToolMissing(pTools)
       THEN PipeExit(1)
       ELSE ppc' = "discover" /\ UNCHANGED pExit
  /\ UNCHANGED <<pScript, pTools, pOpts, pFound, pCodes, pOrder, pPos, pChild>>
  /\ UNCHANGED notPipe

\* run-codemods main(): discovery, ordering, empty-list early return
CodemodsDiscover ==
  /\ pScript = "codemods" /\ ppc = "discover"
  /\ pOrder' = DiscoverAndOrder(pFound)
  /\ pChild' = [i \in 1 .. Len(pFound) |-> "new"]
  /\ IF pFound = <<>>
       THEN PipeExit(0) /\ UNCHANGED pPos
       ELSE ppc' = "loop" /\ pPos' = 1 /\ UNCHANGED pExit
  /\ UNCHANGED <<pScript, pTools, pOpts, pFound, pCodes, pCmds>>
  /\ UNCHANGED notPipe

\* one iteration of the loop, up to the await: spawn({ cmd, ... })
CodemodSpawn ==
  /\ pScript = "codemods" /\ ppc = "loop"
  /\ pCmds' = Append(pCmds, CodemodCmd(pTools, pOrder[pPos]))
  /\ pChild' = [pChild EXCEPT ![pPos] = "running"]
  /\ ppc' = "await"
  /\ UNCHANGED <<pScript, pTools, pOpts, pFound, pCodes, pOrder, pPos, pExit>>
  /\ UNCHANGED notPipe

\* the jscodeshift child of position i exits
CodemodChildExit(i) ==
  /\ pScript = "codemods" /\ ppc # "exited"
  /\ i \in DOMAIN pChild /\ pChild[i] = "running"
  /\ pChild' = [pChild EXCEPT ![i] = "exited"]
  /\ UNCHANGED <<pScript, pTools, pOpts, pFound, pCodes, ppc, pOrder, pPos, pCmds, pExit>>
  /\ UNCHANGED notPipe

\* the await resumes: the rest of the iteration
CodemodResume ==
  /\ pScript = "codemods" /\ ppc = "await" /\ pChild[pPos] = "exited"
  /\ IF Not(ReadSuccess(pCodes[pPos]))
       THEN \* error("Codemod failed: ...")
            PipeExit(1) /\ UNCHANGED pPos
       ELSE IF pPos < Len(pOrder)
         THEN ppc' = "loop" /\ pPos' = pPos + 1 /\ UNCHANGED pExit
         ELSE PipeExit(0) /\ UNCHANGED pPos
  /\ UNCHANGED <<pScript, pTools, pOpts, pFound, pCodes, pOrder, pChild, pCmds>>
  /\ UNCHANGED notPipe

\* docker-push / docker-build main(): validate Bun and Docker, print versions
DockerCheck ==
  /\ pScript \in {"push", "build"} /\ ppc = "start"
  /\ IF DockerToolMissing(pTools)
       THEN PipeExit(1) /\ UNCHANGED pCmds
       ELSE /\ pCmds' = pCmds \o << <<"bun", "--version">>, <<"docker", "--version">> >>
            /\ ppc' = "args"
            /\ UNCHANGED pExit
  /\ UNCHANGED <<pScript, pTools, pOpts, pFound, pCodes, pOrder, pPos, pChild>>
  /\ UNCHANGED notPipe

\* docker-push main(): arguments, registry check
PushArgs ==
  /\ pScript = "push" /\ ppc = "args"
  /\ IF ~pOpts.registry
       THEN PipeExit(1) /\ UNCHANGED pPos
       ELSE ppc' = "tag" /\ pPos' = 1 /\ UNCHANGED pExit
  /\ UNCHANGED <<pScript, pTools, pOpts, pFound, pCodes, pOrder, pChild, pCmds>>
  /\ UNCHANGED notPipe

\* docker-push main(): docker tag / docker push / docker manifest inspect,
\* each a spawnSync followed by its exit code check
PushDocker ==
  /\ pScript = "push" /\ ppc \in {"tag", "push", "inspect"}
  /\ pCmds' = Append(pCmds, IF ppc = "inspect" THEN <<"docker", "manifest", "inspect">>
                            ELSE <<"docker", ppc>>)
  /\ IF pCodes[pPos] # 0
       THEN PipeExit(1) /\ UNCHANGED pPos
       ELSE ppc' = PushSteps[pPos + 1] /\ pPos' = pPos + 1 /\ UNCHANGED pExit
  /\ UNCHANGED <<pScript, pTools, pOpts, pFound, pCodes, pOrder, pChild>>
  /\ UNCHANGED notPipe

\* docker-push main(): optional cosign signing, end of main()
PushCosign ==
  /\ pScript = "push" /\ ppc = "cosign"
  /\ pCmds' = (IF "cosign" \in pTools
                 THEN pCmds \o << <<"cosign", "version">>, <<"cosign", "sign">> >>
                 ELSE pCmds)
  /\ PipeExit(0)
  /\ UNCHANGED <<pScript, pTools, pOpts, pFound, pCodes, pOrder, pPos, pChild>>
  /\ UNCHANGED notPipe

\* docker-build main(): arguments, Dockerfile and context checks
BuildFiles ==
  /\ pScript = "build" /\ ppc = "args"
  /\ IF ~pOpts.dockerfile \/ ~pOpts.context
       THEN PipeExit(1) /\ UNCHANGED pPos
       ELSE ppc' = "build" /\ pPos' = 1 /\ UNCHANGED pExit
  /\ UNCHANGED <<pScript, pTools, pOpts, pFound, pCodes, pOrder, pChild, pCmds>>
  /\ UNCHANGED notPipe

\* docker-build main(): docker build and its exit code check
BuildDocker ==
  /\ pScript = "build" /\ ppc = "build"
  /\ pCmds' = Append(pCmds, <<"docker", "build">>)
  /\ PipeExit(IF pCodes[pPos] # 0 THEN 1 ELSE 0)
  /\ UNCHANGED <<pScript, pTools, pOpts, pFound, pCodes, pOrder, pPos, pChild>>
  /\ UNCHANGED notPipe

PipeNext ==
  \/ CodemodsCheck
  \/ CodemodsDiscover
  \/ CodemodSpawn
  \/ \E i \in 1 .. MaxMods + 1 : CodemodChildExit(i)
  \/ CodemodResume
  \/ DockerCheck
  \/ PushArgs
  \/ PushDocker
  \/ PushCosign
  \/ BuildFiles
  \/ BuildDocker

\* ================================================= transform-docker-compose
\* A path is <<base, n>>: the compose file `base` followed by n copies of
\* BACKUP_SUFFIX.  A compose file's content is [layout, version, image]:
\* whether the text is laid out as yaml.dump writes it, the top-level
\* version, and the image of the api service.
NoCompose == [layout |-> "enoent", version |-> "absent", image |-> "none"]   \* no such file
ComposeBases == {"docker-compose.yml", "docker-compose.override.yml"}
ComposePaths == ComposeBases \X (0 .. MaxRuns + 1)
Bak(path) == <<path[1], path[2] + 1>>         \* file + BACKUP_SUFFIX

\* DEFAULT_PATTERNS: 'docker-compose.yml' matches that name alone,
\* 'docker-compose.override.yml*' every name that starts with it
MatchesPatterns(path) ==
  \/ path[1] = "docker-compose.yml" /\ path[2] = 0
  \/ path[1] = "docker-compose.override.yml"

RECURSIVE GlobFrom(_, _, _)
\* the existing paths of one base that match, by number of suffixes
GlobFrom(disk, base, n) ==
  IF n > MaxRuns + 1 THEN <<>>
  ELSE (IF disk[<<base, n>>] # NoCompose /\ MatchesPatterns(<<base, n>>)
          THEN << <<base, n>> >> ELSE <<>>)
       \o GlobFrom(disk, base, n + 1)

\* run(): the set `files`, in insertion order
ComposeGlob(disk) ==
  GlobFrom(disk, "docker-compose.yml", 0) \o GlobFrom(disk, "docker-compose.override.yml", 0)

\* imagePlugin and healthPlugin on a document with an api service, then
\* yaml.dump
LIBRECHAT_IMAGE == "ghcr.io/danny-avila/librechat"
ComposeTransform(doc) ==
  [layout  |-> "dump",
   version |-> IF doc.version = "absent" THEN "3.8" ELSE doc.version,
   image   |-> IF doc.image = LIBRECHAT_IMAGE THEN "myregistry/librechat-bun:latest"
               ELSE doc.image]

ComposeDocs ==
  [layout : {"user", "dump"}, version : {"absent", "3.8"},
   image : {LIBRECHAT_IMAGE, "myregistry/librechat-bun:latest"}]

ComposeInit ==
  /\ \E d \in ComposeDocs \cup {NoCompose}, o \in ComposeDocs \cup {NoCompose} :
       cDisk = [p \in ComposePaths |->
                  IF p = <<"docker-compose.yml", 0>> THEN d
                  ELSE IF p = <<"docker-compose.override.yml", 0>> THEN o
                  ELSE NoCompose]
  /\ cFirst = cDisk
  /\ cFiles = <<>>
  /\ cPos = 0
  /\ cRun = 1
  /\ cpc = "start"
  \* no sync-upstream script is running
  /\ sScript = "none" /\ sCodes = <<>> /\ sExit = 0
  \* the orchestrators are not running
  /\ script = "none" /\ N = 0 /\ K = 1 /\ dryRun = FALSE /\ hasBun = TRUE
  /\ kind = <<>> /\ code = <<>> /\ mainpc = "exited" /\ idx = 0
  /\ wpc = <<>> /\ wtask = <<>> /\ ustate = <<>> /\ spawns = <<>>
  /\ failed = {} /\ hadError = FALSE /\ exitStatus = 0
  \* update-env is not running
  /\ eArgs = <<>> /\ eEnv = <<>> /\ fs = <<>> /\ epc = "done"
  /\ eMerged = <<>> /\ eUpdated = <<>> /\ eUpdates = <<>> /\ eMissing = <<>>
  /\ eWarned = <<>> /\ eStdout = <<"none">> /\ eWrites = <<>> /\ eExit = 0
  \* no rewriting script is running
  /\ rScript = "none" /\ rDry = FALSE /\ rIdx = 0 /\ rpc = "done" /\ rName = "other"
  /\ rDisk = <<>> /\ rOrig = <<>> /\ rOut = NoOutput /\ rWrote = FALSE
  /\ rBackup = NoFile /\ rMsg = "none" /\ rTotal = 0 /\ rBad = 0 /\ rExit = 0
  \* update-packagejson is not running
  /\ dScript = "none" /\ dDisk = <<>> /\ dBefore = <<>> /\ dAfter = <<>>
  /\ dRun = 0 /\ dCall = 0 /\ dpc = "exited" /\ dExit = 0
  \* no codemod is being applied
  /\ mScript = "none" /\ mPath = "other" /\ mSrc = <<>> /\ mPrev = <<>> /\ mApps = 0
  \* no sequential runner is running
  /\ pScript = "none" /\ pTools = {} /\ pOpts = <<>> /\ pFound = <<>> /\ pCodes = <<>>
  /\ ppc = "exited" /\ pOrder = <<>> /\ pPos = 0 /\ pChild = <<>> /\ pCmds = <<>> /\ pExit = 0

\* run(): the patterns are expanded, then the loop over files starts
ComposeRun ==
  /\ cpc = "start"
  /\ cFiles' = ComposeGlob(cDisk)
  /\ IF ComposeGlob(cDisk) = <<>>
       THEN \* "No Docker Compose files found"
            cpc' = "done" /\ cPos' = 0
       ELSE cpc' = "backup" /\ cPos' = 1
  /\ UNCHANGED <<cDisk, cFirst, cRun>>
  /\ UNCHANGED notCompose

\* transformOne, step 1
ComposeBackup ==
  /\ cpc = "backup"
  /\ LET file == cFiles[cPos] IN
     cDisk' = (IF cDisk[Bak(file)] = NoCompose THEN [cDisk EXCEPT ![Bak(file)] = cDisk[file]]
               ELSE cDisk)
  /\ cpc' = "dump"
  /\ UNCHANGED <<cFirst, cFiles, cPos, cRun>>
  /\ UNCHANGED notCompose

\* transformOne, steps 2-4, and the head of the loop over files
ComposeDump ==
  /\ cpc = "dump"
  /\ LET file == cFiles[cPos] IN
     cDisk' = [cDisk EXCEPT ![file] = ComposeTransform(cDisk[file])]
  /\ IF cPos < Len(cFiles)
       THEN cPos' = cPos + 1 /\ cpc' = "backup"
       ELSE cPos' = 0 /\ cpc' = "done"
  /\ UNCHANGED <<cFirst, cFiles, cRun>>
  /\ UNCHANGED notCompose

\* the script is run once more
ComposeRunAgain ==
  /\ cpc = "done" /\ cRun < MaxRuns
  /\ cRun' = cRun + 1
  /\ cpc' = "start"
  /\ cFiles' = <<>>
  /\ UNCHANGED <<cDisk, cFirst, cPos>>
  /\ UNCHANGED notCompose

ComposeNext ==
  \/ ComposeRun
  \/ ComposeBackup
  \/ ComposeDump
  \/ ComposeRunAgain

\* ======================================================== sync-upstream.sh
\* A shell script is the sequence of its commands, echo left out (it does
\* not fail).  `tolerated` marks a command whose failure the script handles:
\* the left side of `||`, or the condition of an `if`; `when` says whether
\* the command runs always or only in the branch taken when the condition
\* before it succeeded ("ok") or failed ("failed").
Cmd(name) == [cmd |-> name, tolerated |-> FALSE, when |-> "always"]
Tolerated(name) == [cmd |-> name, tolerated |-> TRUE, when |-> "always"]
Branch(name, w) == [cmd |-> name, tolerated |-> FALSE, when |-> w]
ForcePush == "git push origin main --force"

\* sync-upstream.sh, first revision (set -e)
SyncFirst ==
  << Cmd("git remote add"), Cmd("git fetch"), Cmd("git checkout -B"), Cmd("git reset --hard"),
     Cmd("jscodeshift"), Cmd("jscodeshift"), Cmd("update-packagejson"),
     Cmd("install"), Cmd("install"), Cmd("install"),
     Cmd("git add"), Cmd("git commit"), Cmd("git checkout main"), Cmd("git merge"),
     Cmd(ForcePush) >>

\* sync-upstream.sh, bun revision (set -euox pipefail)
SyncBun ==
  << Tolerated("git remote get-url"), Branch("git remote add", "failed"),
     Cmd("git config"), Cmd("git config"), Cmd("touch"),
     Cmd("_append_if_missing"), Cmd("_append_if_missing"),
     Cmd("_append_if_missing"), Cmd("_append_if_missing"),
     Cmd("git config"), Cmd("git add"), Tolerated("git commit"),
     Cmd("git fetch"), Cmd("git checkout main"), Cmd("git pull"), Cmd("git merge"),
     Cmd("touch"),
     Cmd("_append_if_missing"), Cmd("_append_if_missing"),
     Cmd("_append_if_missing"), Cmd("_append_if_missing"),
     Cmd("git config"), Cmd("git add"), Tolerated("git commit"),
     Cmd("update-packagejson"), Cmd("install"),
     Cmd("jscodeshift"), Cmd("jscodeshift"), Cmd("jscodeshift"), Cmd("jscodeshift"),
     Cmd("jscodeshift"),
     Cmd("install"), Cmd("install"),
     Cmd("git add"), Tolerated("git commit"),
     Cmd(ForcePush) >>

\* sync-upstream.sh, merge revision (no set -e)
SyncMerge ==
  << Cmd("git remote add"), Cmd("git fetch"), Cmd("git checkout main"), Cmd("git pull"),
     Cmd("git merge"),
     Cmd("jscodeshift"), Cmd("jscodeshift"), Cmd("update-packagejson"),
     Cmd("install"), Cmd("install"), Cmd("install"),
     Cmd("git add"), Cmd("git commit"),
     Cmd(ForcePush) >>

\* sync-upstream.sh, reset revision (set -exuo pipefail)
SyncReset ==
  << Cmd("git fetch"),
     Tolerated("git rev-parse"), Branch("git checkout", "ok"), Branch("git checkout -b", "failed"),
     Cmd("git reset --hard"),
     Cmd("jscodeshift"), Cmd("jscodeshift"), Cmd("update-packagejson"),
     Cmd("install"), Cmd("install"), Cmd("install"),
     Cmd("git add"), Cmd("git commit"),
     Cmd("git checkout main"), Cmd("git pull"), Cmd("git merge"),
     Cmd(ForcePush) >>

SyncScripts == {"first", "bun", "merge", "reset"}
SyncCommands(sc) ==
  CASE sc = "first" -> SyncFirst
    [] sc = "bun" -> SyncBun
    [] sc = "merge" -> SyncMerge
    [] OTHER -> SyncReset

\* whether the script starts with `set -e`
Errexit(sc) == sc # "merge"

Skipped == 2      \* in sCodes: the command was in the branch not taken

RECURSIVE LastDecided(_, _)
\* the exit code of the condition that governs a branch command at position
\* i: the nearest command before it that is not itself a branch command
LastDecided(cmds, i) ==
  IF cmds[i - 1].when = "always" THEN i - 1 ELSE LastDecided(cmds, i - 1)

SyncInit ==
  /\ sScript \in SyncScripts
  /\ sCodes = <<>>
  /\ sExit = -1
  \* the orchestrators are not running
  /\ script = "none" /\ N = 0 /\ K = 1 /\ dryRun = FALSE /\ hasBun = TRUE
  /\ kind = <<>> /\ code = <<>> /\ mainpc = "exited" /\ idx = 0
  /\ wpc = <<>> /\ wtask = <<>> /\ ustate = <<>> /\ spawns = <<>>
  /\ failed = {} /\ hadError = FALSE /\ exitStatus = 0
  \* update-env is not running
  /\ eArgs = <<>> /\ eEnv = <<>> /\ fs = <<>> /\ epc = "done"
  /\ eMerged = <<>> /\ eUpdated = <<>> /\ eUpdates = <<>> /\ eMissing = <<>>
  /\ eWarned = <<>> /\ eStdout = <<"none">> /\ eWrites = <<>> /\ eExit = 0
  \* no rewriting script is running
  /\ rScript = "none" /\ rDry = FALSE /\ rIdx = 0 /\ rpc = "done" /\ rName = "other"
  /\ rDisk = <<>> /\ rOrig = <<>> /\ rOut = NoOutput /\ rWrote = FALSE
  /\ rBackup = NoFile /\ rMsg = "none" /\ rTotal = 0 /\ rBad = 0 /\ rExit = 0
  \* update-packagejson is not running
  /\ dScript = "none" /\ dDisk = <<>> /\ dBefore = <<>> /\ dAfter = <<>>
  /\ dRun = 0 /\ dCall = 0 /\ dpc = "exited" /\ dExit = 0
  \* no codemod is being applied
  /\ mScript = "none" /\ mPath = "other" /\ mSrc = <<>> /\ mPrev = <<>> /\ mApps = 0
  \* no sequential runner is running
  /\ pScript = "none" /\ pTools = {} /\ pOpts = <<>> /\ pFound = <<>> /\ pCodes = <<>>
  /\ ppc = "exited" /\ pOrder = <<>> /\ pPos = 0 /\ pChild = <<>> /\ pCmds = <<>> /\ pExit = 0
  \* transform-docker-compose is not running
  /\ cDisk = <<>> /\ cFirst = <<>> /\ cFiles = <<>> /\ cPos = 0 /\ cRun = 0 /\ cpc = "done"

\* bash runs the next command of the script
SyncStep ==
  /\ sExit = -1
  /\ LET cmds == SyncCommands(sScript)
         i == Len(sCodes) + 1
         c == cmds[i]
         taken == \/ c.when = "always"
                  \/ c.when = "ok" /\ sCodes[LastDecided(cmds, i)] = 0
                  \/ c.when = "failed" /\ sCodes[LastDecided(cmds, i)] # 0
     IN  \E ec \in (IF taken THEN ExitCodes ELSE {Skipped}) :
           /\ sCodes' = Append(sCodes, ec)
           /\ sExit' = (IF ec \in ExitCodes \ {0} /\ ~c.tolerated /\ Errexit(sScript)
                          THEN ec                       \* set -e ends the script
                        ELSE IF i = Len(cmds) THEN 0    \* the closing echo
                        ELSE -1)
  /\ UNCHANGED sScript
  /\ UNCHANGED notSync

SyncNext == SyncStep

\* ---------------------------------------------------------- specifications
SpecRun == RunInit /\ [][RunNext]_vars

SpecEnv == EnvInit /\ [][EnvNext]_vars

\* update-env with the output write in file-system steps, and interruption
SpecEnvFaults == EnvInit /\ [][EnvFaultsNext]_vars

SpecRewrite == RwInit /\ [][RwNext]_vars

SpecDeps == DepInit /\ [][DepNext]_vars

SpecCodemod == ModInit /\ [][ModNext]_vars

\* The event loop runs every continuation that is ready, and a child that
\* exits at all does so eventually: a step that can be taken is taken.
SpecHang == HangInit /\ [][RunNext]_vars /\ WF_vars(RunNext)

SpecPipe == PipeInit /\ [][PipeNext]_vars

SpecCompose == ComposeInit /\ [][ComposeNext]_vars

SpecSync == SyncInit /\ [][SyncNext]_vars

\* ------------------------------------------------ claims on the orchestrators
Running == {u \in Units : ustate[u] = "running"}

\* units whose child process has exited with a non-zero code
ChildFailed == {u \in Units : ustate[u] \in {"exited", "awaited"} /\ code[u] # 0}

\* C1: at every moment the number of child processes started and not yet
\* exited is at most the concurrency limit K.
C1_BoundRespected == Cardinality(Running) <= K

C1_Witness == K >= 2 /\ N > K /\ Cardinality(Running) = K

\* C2: in bun-install-all and bun-test-all a failing unit cancels nothing:
\* when the run exits (having found its tool, and not in dry-run mode, where
\* no child is ever started), every discovered unit's child process has been
\* started once and awaited.
C2_FailureCancelsNothing ==
  (mainpc = "exited" /\ script \in {"install", "test"} /\ ~dryRun /\ hasBun)
  => \A u \in Units : ustate[u] = "awaited" /\ spawns[u] = 1

C2_Witness ==
  /\ mainpc = "exited" /\ script = "install" /\ K >= 2 /\ N >= 3
  /\ \A u \in Units : ustate[u] = "awaited"
  /\ code[1] # 0 /\ code[N] = 0

\* C3 (as claimed): in bun-build-all a workspace whose build exits non-zero
\* does not abort its siblings: when the run exits after such a failure,
\* every workspace has run to completion (its build was awaited, or it had
\* nothing to build).
C3_BuildFailureKeepsSiblings ==
  (mainpc = "exited" /\ script = "build" /\ ChildFailed # {}
     /\ \A u \in Units : kind[u] # "bad")
  => \A u \in Units : ustate[u] \in {"awaited", "skipped"}

\* C4 (as claimed): bun-install-all and bun-test-all exit 0 exactly when no
\* unit's child process exited non-zero, and non-zero otherwise.
C4_ExitCodeContract ==
  (mainpc = "exited" /\ script \in {"install", "test"} /\ hasBun)
  => (exitStatus = 0 <=> ChildFailed = {})

\* The outcome of a run with limit 1, where the units run one after another
\* in list order: bun-build-all stops at the first unit that throws or whose
\* build is reported failed; the other two visit every unit.
RECURSIVE BuildSeq(_, _, _, _, _)
BuildSeq(u, n, kinds, codes, dry) ==
  IF u > n THEN [failed |-> {}, status |-> 0]
  ELSE IF kinds[u] = "bad" THEN [failed |-> {}, status |-> 1]
  ELSE IF kinds[u] = "cmd" /\ ~dry /\ ReadExitCode("build", codes[u]) # 0
    THEN [failed |-> {u}, status |-> 1]
  ELSE BuildSeq(u + 1, n, kinds, codes, dry)

SeqOutcome(s, n, kinds, codes, dry, bun) ==
  IF s # "test" /\ ~bun THEN [failed |-> {}, status |-> 1]
  ELSE IF s = "build" THEN BuildSeq(1, n, kinds, codes, dry)
  ELSE LET f == {u \in 1 .. n : ~dry /\ ReadExitCode(s, codes[u]) # 0}
       IN  [failed |-> f, status |-> IF f = {} THEN 0 ELSE 1]

\* C5 (as claimed): the exit status and the set of units reported as failed
\* do not depend on K: every run ends with the outcome of the run with K = 1.
C5_OutcomeIndependentOfK ==
  (mainpc = "exited" /\ \A u \in Units : kind[u] # "bad")
  => LET ref == SeqOutcome(script, N, kind, code, dryRun, hasBun)
     IN  failed = ref.failed /\ exitStatus = ref.status

\* the reference outcome is the outcome of every run with K = 1
SeqOutcomeIsSequential ==
  (mainpc = "exited" /\ K = 1)
  => LET ref == SeqOutcome(script, N, kind, code, dryRun, hasBun)
     IN  failed = ref.failed /\ exitStatus = ref.status

\* C6: no retry: every unit's command is spawned at most once per run.
C6_NoRetry == \A u \in Units : spawns[u] <= 1

C6_Witness ==
  /\ mainpc = "exited" /\ N >= 2
  /\ \E u \in Units : ustate[u] = "awaited" /\ code[u] # 0 /\ spawns[u] = 1
  /\ \A u \in Units : ustate[u] = "awaited"

\* ---------------------------------------------------- claims on update-env
\* the merged lines have been through the substitution loop
Processed == epc \notin {"start", "process"} /\ Len(eUpdated) = Len(eMerged)

\* a fallback was supplied on the command line (the workflow passes
\* --fallback only when its input is not empty)
FallbackSupplied == eArgs.fallback.has /\ eArgs.fallback.val # <<>>

\* positions of merged holding a placeholder line
PlaceholderAt == {i \in 1 .. Len(eMerged) : MatchPlaceholder(eMerged[i]).ok}

KeyAt(i) == MatchPlaceholder(eMerged[i]).key

InSeq(x, q) == \E j \in 1 .. Len(q) : q[j] = x

\* C7 (as claimed): every placeholder line KEY=GET_FROM_LOCAL_ENV becomes
\* KEY=<runtime value> if Bun.env has KEY, else KEY=<fallback> if a fallback
\* was supplied, else stays as it is and KEY is reported missing.
C7_FallbackCorrectness ==
  Processed =>
    \A i \in PlaceholderAt :
      LET val == EnvLookup(eEnv, KeyAt(i)) IN
      IF val.has THEN eUpdated[i] = Assign(KeyAt(i), val.val)
      ELSE IF FallbackSupplied THEN eUpdated[i] = Assign(KeyAt(i), eArgs.fallback.val)
      ELSE eUpdated[i] = eMerged[i] /\ InSeq(KeyAt(i), eWarned)

\* positions holding a placeholder whose key has neither a runtime value nor
\* a fallback
Unresolved ==
  {i \in PlaceholderAt : ~EnvLookup(eEnv, KeyAt(i)).has /\ ~FallbackSupplied}

\* C8: a placeholder with neither runtime value nor fallback is fatal only
\* under --strict: then the run exits 1 and nothing is written; without
\* --strict the run exits 0 and its output keeps the line unchanged.
C8_StrictOnlyFatal ==
  (epc = "done" /\ Processed /\ Unresolved # {})
  => IF eArgs.strict
       THEN eExit = 1 /\ eWrites = <<>> /\ fs["out"] = OutBefore /\ eStdout = <<"none">>
       ELSE /\ eExit = 0
            /\ \A i \in Unresolved : eUpdated[i] = eMerged[i]
            /\ IF eArgs.dryRun
                 THEN eStdout \in {<<"lines", eUpdated>>, <<"json", eUpdates>>}
                 ELSE fs["out"] = eUpdated

C8_Witness ==
  /\ epc = "done" /\ Processed /\ Unresolved # {}
  /\ eArgs.strict /\ ~eArgs.dryRun /\ eExit = 1
  /\ Len(eMerged) >= 2 /\ eUpdates # <<>>

\* C9: with --dry-run nothing is written: no Bun.write happens, the output
\* path keeps its content and no temporary file appears.
C9_DryRunWritesNothing ==
  eArgs.dryRun => eWrites = <<>> /\ fs["out"] = OutBefore /\ fs["tmp"] = NoFile

C9_Witness ==
  /\ eArgs.dryRun /\ epc = "done" /\ eExit = 0
  /\ eUpdates # <<>> /\ eUpdated # eMerged /\ eStdout # <<"none">>

\* ------------------------------------------- claims on the rewriting scripts
\* C10 (as claimed): when the output computed for a file is textually
\* identical to the file's content, the file is not written and no "updated"
\* message is reported for it.
C10_NoOpDetection ==
  (rpc = "visited" /\ rOut.has /\ rOut.val = rOrig)
  => ~rWrote /\ rMsg # "updated"

\* the four scripts that compare before writing
C10_ComparingScripts ==
  rScript \in {"utils", "husky", "docker", "html"} => C10_NoOpDetection

\* ------------------------------------------- claims on update-packagejson
\* C11: running update-packagejson a second time changes no manifest: during
\* and after the second run every manifest holds the content the first run
\* left in it.
C11_SecondRunChangesNothing == dRun = 2 => dDisk = dAfter

\* a second run has completed on manifests that the first run rewrote
C11_Witness ==
  /\ dRun = 2 /\ dpc = "exited" /\ dExit = 0
  /\ \A p \in DepPaths : dBefore[p] # NoManifest => dAfter[p] # dBefore[p]
  /\ \E p \in DepPaths : dBefore[p] # NoManifest /\ dBefore[p].fmt = "canon"

\* ------------------------------------------------- claims on the codemods
\* C12: applied to a file it has already rewritten, transform-env-access
\* returns the file unchanged.
C12_EnvAccessIdempotent ==
  (mScript = "env" /\ mApps >= 2) => mSrc = mPrev

\* a client file holds an import.meta.env access, which only the substitution
\* can have put there, and the codemod has been applied to it again
C12_Witness ==
  /\ mScript = "env" /\ mApps = 2 /\ mPath = "client"
  /\ Len(mSrc) = 1 /\ mSrc[1].s = "expr" /\ mSrc[1].e.t = "infix"
  /\ mSrc[1].e.l = Access("import.meta", "A", "dot")

\* --------------------------------------- claims on the sequential runners
\* position of name n in sequence q (0 if absent)
PosIn(n, q) == IF n \in Elems(q) THEN CHOOSE i \in 1 .. Len(q) : q[i] = n ELSE 0

Listed(n) == n \in Elems(DESIRED_ORDER)

\* run-codemods has computed its order
Ordered ==
  /\ pScript = "codemods"
  /\ \/ ppc \in {"loop", "await"}
     \/ ppc = "exited" /\ ~CodemodsToolMissing(pTools)

\* C13: the computed order holds each discovered file exactly once; files
\* that DESIRED_ORDER names come before all others, in DESIRED_ORDER's
\* relative order; the others are in ascending order of basename.
C13_OrderIsDesiredThenAlphabetical ==
  Ordered =>
    /\ Len(pOrder) = Len(pFound)
    /\ Elems(pOrder) = Elems(pFound)
    /\ \A i, j \in 1 .. Len(pOrder) :
         i < j =>
           /\ pOrder[i] # pOrder[j]
           /\ Listed(pOrder[j]) => Listed(pOrder[i])
           /\ (Listed(pOrder[i]) /\ Listed(pOrder[j])) =>
                PosIn(pOrder[i], DESIRED_ORDER) < PosIn(pOrder[j], DESIRED_ORDER)
           /\ (~Listed(pOrder[i]) /\ ~Listed(pOrder[j])) =>
                ModRank[pOrder[i]] < ModRank[pOrder[j]]

\* an order was computed from a listing that had to be rearranged in both parts
C13_Witness ==
  /\ pScript = "codemods" /\ ppc = "loop"
  /\ pFound = <<"update-index-html.js", "transform-husky.js", "inject-otel-bun.js">>
  /\ pOrder = <<"transform-husky.js", "inject-otel-bun.js", "update-index-html.js">>

IsWork(cmd) ==
  \/ cmd[1] = "docker" /\ cmd[2] \in {"tag", "push", "build"}
  \/ cmd[1] = "jscodeshift"
  \/ cmd[1] = "bunx"

\* a tool the script requires is not on PATH
RequiredToolMissing ==
  \/ pScript \in {"push", "build"} /\ ("bun" \notin pTools \/ "docker" \notin pTools)
  \/ pScript = "codemods" /\ "jscodeshift" \notin pTools /\ "bunx" \notin pTools

\* C15: when a required tool is missing the tool check ends the run with
\* status 1, and no docker tag / push / build command and no codemod is
\* ever started.
C15_MissingToolIsFatal ==
  RequiredToolMissing =>
    /\ ppc \in {"start", "exited"}
    /\ ppc = "exited" => pExit = 1
    /\ \A i \in 1 .. Len(pCmds) : ~IsWork(pCmds[i])

\* docker-build ended at its tool check because docker is not on PATH
C15_Witness ==
  /\ pScript = "build" /\ "bun" \in pTools /\ "docker" \notin pTools
  /\ pOpts.dockerfile /\ pOpts.context
  /\ ppc = "exited" /\ pExit = 1 /\ pCmds = <<>>

\* ------------------------------------------------- claims on malformed JSON
\* C16: in transform-package-json and transform-tsconfig a file whose JSON
\* does not parse is reported and left as it was, the scan goes on to every
\* other discovered file, which is rewritten as usual, and the run ends with
\* status 0.
C16_MalformedJsonSkipped ==
  rScript \in {"package", "tsconfig"} =>
    /\ (rpc = "visited" /\ rOrig.fmt = "bad") =>
         (rDisk = rOrig /\ ~rWrote /\ rMsg \in {"error", "skipped"})
    /\ (rpc = "visited" /\ rOrig.fmt # "bad") => (rWrote /\ rMsg = "updated")
    /\ rpc = "done" => (rIdx = rTotal /\ rExit = 0)
    /\ rExit \in {-1, 0}

\* a malformed file was skipped, the next file was rewritten and the run ended
C16_Witness ==
  /\ rScript \in {"package", "tsconfig"}
  /\ rBad = 1 /\ rTotal = 2 /\ rIdx = 2 /\ rpc = "done" /\ rExit = 0
  /\ rOrig.fmt = "loose" /\ rWrote /\ rDisk.fmt = "canon"

\* ------------------------------------------- claim on update-env's output
\* C17 (as claimed): at every point of a run of update-env, interrupted or
\* not, the output path holds its complete previous content or the complete
\* new content.
C17_OutputWrittenAtomically ==
  epc # "start" =>
    \/ fs["out"] = OutBefore
    \/ Processed /\ fs["out"] = eUpdated

\* the variables the file declares as Elysia apps
AppVars == {mSrc[i].name : i \in Where(mSrc, LAMBDA st : st.s = "decl")}

\* C18 (as claimed): once transform-telemetry has been applied, any number of
\* times, to a file with an Elysia app variable, the file has exactly one
\* import from '@elysia/opentelemetry' and, for each app variable, exactly
\* one <var>.use(opentelemetry(...)) call.
C18_OneImportOneUsePerApp ==
  (mScript = "telemetry" /\ mApps >= 1 /\ AppVars # {}) =>
    /\ Cardinality(Where(mSrc, LAMBDA st : st = ImportOf(IMPORT_SOURCE))) = 1
    /\ \A v \in AppVars :
         Cardinality(Where(mSrc, LAMBDA st : st = UseCall(v, IMPORT_NAME))) = 1

\* the same for files whose app variables are all declared in a statement list
C18_UnexportedOnly ==
  (mScript = "telemetry" /\ \A i \in 1 .. Len(mSrc) : ~mSrc[i].exported)
    => C18_OneImportOneUsePerApp

\* number of positions of sequence q that hold x
Count(q, x) == Cardinality({i \in 1 .. Len(q) : q[i] = x})

\* the entrypoint has imports, renders JSX and has no PluginLoader yet
Unwrapped(src) ==
  /\ src.imports # <<>> /\ Count(src.imports, PLUGIN_LOADER) = 0
  /\ src.arg # <<>> /\ Count(src.arg, JsxId("PluginLoader")) = 0

\* C19 (as claimed): after insert-pluginloader has been applied to a client
\* entrypoint that was not wrapped yet, the render call's argument has
\* exactly one PluginLoader wrapper and the file exactly one import of
\* './plugin-runtime/PluginLoader'.
C19_ExactlyOneWrapper ==
  (mScript = "pluginloader" /\ mPath = "entry" /\ mApps = 1 /\ Unwrapped(mPrev)) =>
    /\ Count(mSrc.arg, JsxId("PluginLoader")) = 1
    /\ Count(mSrc.imports, PLUGIN_LOADER) = 1

\* the same of the transformer's body alone, were the module to load
C19_BodyExactlyOneWrapper ==
  (mScript = "pluginloader" /\ mPath = "entry" /\ mApps = 0 /\ Unwrapped(mSrc)) =>
    LET once == InsertPluginLoader(mSrc, mPath)
        twice == InsertPluginLoader(once, mPath)
    IN  /\ Count(once.arg, JsxId("PluginLoader")) = 1
        /\ Count(once.imports, PLUGIN_LOADER) = 1
        /\ twice = once

\* the same for the two call forms the transformer looks for
C19_BodyOnNamedCalls ==
  (mScript = "pluginloader" /\ mSrc.call # "createRoot().render") => C19_BodyExactlyOneWrapper

\* C20: every docker shell script that transform-docker-scripts writes back
\* holds no npm/yarn command that the REPLACEMENTS table matches.
C20_NoMatchLeftInWrittenScript ==
  (rScript = "docker" /\ rpc = "visited" /\ rWrote) =>
     \A i \in 1 .. Len(rDisk) : ~MatchesReplacement(rDisk[i])

\* the same property of the text step 4 computes and step 5 discards
C20_Step4LeavesNoMatch ==
  (rScript = "docker" /\ rpc = "visited") =>
     \A i \in 1 .. Len(rOrig) : ~MatchesReplacement(ReplaceCommands(rOrig)[i])

\* C21: after transform-prettier-config has run on a parsable config with a
\* config object, the config has an override that covers .ts/.tsx files and
\* whose options.parser is 'typescript'.
C21_TsOverrideHasTypescriptParser ==
  (mScript = "prettier" /\ mApps >= 1 /\ mSrc.form = "object") =>
     \E i \in 1 .. Len(mSrc.overrides.val) :
        mSrc.overrides.val[i].ts /\ mSrc.overrides.val[i].opts = "typescript"

\* the same for a config that held no .ts/.tsx override before the run
C21_WithoutExistingOverride ==
  (mScript = "prettier" /\ mApps = 1 /\ mPrev.form = "object" /\ ~HasTs(mPrev.overrides.val)) =>
     \E i \in 1 .. Len(mSrc.overrides.val) :
        mSrc.overrides.val[i].ts /\ mSrc.overrides.val[i].opts = "typescript"

\* C22: in bun-install-all, for every limit K, the install in the root
\* package has finished before the install of any sub-package is started.
C22_RootFinishedBeforeSubPackages ==
  (script = "install" /\ N >= 1) =>
     \A u \in Units \ {RootUnit} :
        spawns[u] > 0 => ustate[RootUnit] \in {"exited", "awaited"}

\* the same with one slot only
C22_RootFinishedFirstWhenSequential ==
  (script = "install" /\ N >= 1 /\ K = 1) =>
     \A u \in Units \ {RootUnit} :
        spawns[u] > 0 => ustate[RootUnit] \in {"exited", "awaited"}

\* for every limit, the root install is started before any other
C22_RootStartedFirst ==
  (script = "install" /\ N >= 1) =>
     \A u \in Units \ {RootUnit} : spawns[u] > 0 => spawns[RootUnit] > 0

\* the runs C23 is about: at least two slots, one unit whose child never
\* exits, every other unit a command that exits 0
HangCase ==
  /\ K >= 2 /\ hasBun /\ ~dryRun
  /\ Cardinality({u \in Units : kind[u] = "hang"}) = 1
  /\ \A u \in Units : kind[u] \in {"cmd", "hang"} /\ code[u] = 0
OthersCompleted == \A u \in Units : kind[u] # "hang" => ustate[u] = "awaited"

\* C23: with K >= 2 and one child that never exits, every other unit is
\* eventually started and run to completion, and the run never exits.
C23_HungChildBlocksOnlyItsSlot ==
  HangCase => (<>OthersCompleted /\ [](mainpc # "exited"))

\* the same for bun-install-all alone
C23_InstallAll ==
  (HangCase /\ script = "install") => (<>OthersCompleted /\ [](mainpc # "exited"))

\* the same for bun-test-all when all units fit in one batch
C23_TestAllOneBatch ==
  (HangCase /\ script = "test" /\ N <= K) => (<>OthersCompleted /\ [](mainpc # "exited"))

\* the commands docker-push has started, the version queries left out
PushWork ==
  SelectSeq(pCmds, LAMBDA c : c \notin {<<"bun", "--version">>, <<"docker", "--version">>,
                                        <<"cosign", "version">>})
PushExpected ==
  << <<"docker", "tag">>, <<"docker", "push">>, <<"docker", "manifest", "inspect">>,
     <<"cosign", "sign">> >>

\* C24: docker-push starts tag, push, manifest inspect and cosign sign in
\* this order, each only after the previous one exited 0; a failed tag, push
\* or inspection ends the run with status 1 and no later step is started.
C24_PushStepsInOrder ==
  pScript = "push" =>
    /\ Len(PushWork) <= Len(PushExpected)
    /\ PushWork = SubSeq(PushExpected, 1, Len(PushWork))
    /\ \A i \in 2 .. Len(PushWork) : pCodes[i - 1] = 0
    /\ \A i \in 1 .. Len(PushWork) :
         (i <= 3 /\ pCodes[i] # 0) => (Len(PushWork) = i /\ ppc = "exited" /\ pExit = 1)

C24_Witness ==
  /\ pScript = "push" /\ ppc = "exited" /\ pExit = 1
  /\ PushWork = SubSeq(PushExpected, 1, 2)
  /\ pCodes[1] = 0 /\ pCodes[2] # 0 /\ "cosign" \in pTools

\* C25: transform-dockerfile is idempotent: a second run over a Dockerfile
\* leaves the content the first run wrote.
C25_DockerfileIdempotent ==
  (mScript = "dockerfile" /\ mApps >= 2) => mSrc = mPrev

\* the same for runs over Dockerfiles without CMD / ENTRYPOINT and without a
\* second FROM argument
C25_RunAndPlainFromIdempotent ==
  (mScript = "dockerfile" /\ mApps >= 2
     /\ \A i \in 1 .. Len(mPrev) :
          /\ mPrev[i].kw \notin {"CMD", "ENTRYPOINT"}
          /\ mPrev[i].kw = "FROM" => Len(mPrev[i].args) = 1)
  => mSrc = mPrev

\* a CMD / ENTRYPOINT already of the form ["bun","run",...] is not wrapped
C25_BunExecFormNotWrapped ==
  (mScript = "dockerfile" /\ mApps >= 1) =>
     \A i \in 1 .. Len(mSrc) :
       (mPrev[i].kw \in {"CMD", "ENTRYPOINT"} /\ mPrev[i].form = "exec"
          /\ mPrev[i].wraps = 0 /\ mPrev[i].args[1] = "bun")
       => mSrc[i].wraps = 0

\* C26: applying insert-pluginserver, update-index-html or the
\* client/index.html injection a second time changes nothing.
C26_PluginInjectionIdempotent ==
  (mScript \in {"pluginserver", "updatehtml", "injecthtml"} /\ mApps >= 2)
  => mSrc = mPrev

\* the first application to a file that holds one root div and no injection
\* yet leaves exactly one import, one app.use(pluginServer), one loader
C26_FirstRunInjectsOnce ==
  (mApps = 1 /\ mPath # "other") =>
    /\ (mScript = "pluginserver" /\ Count(mPrev, PluginServerImport) = 0
           /\ Count(mPrev, PluginServerUse) = 0)
        => (Count(mSrc, PluginServerImport) = 1 /\ Count(mSrc, PluginServerUse) = 1)
    /\ (mScript = "updatehtml" /\ Count(mPrev, "root") = 1 /\ Count(mPrev, "pluginScript") = 0)
        => Count(mSrc, "pluginScript") = 1
    /\ (mScript = "injecthtml" /\ Count(mPrev, "root") = 1 /\ Count(mPrev, "bootstrap") = 0)
        => Count(mSrc, "bootstrap") = 1

\* the visited docker script was written and got the declaration block
BlockInjected ==
  /\ rScript = "docker" /\ rpc = "visited" /\ rWrote
  /\ \A i \in 1 .. Len(rOrig) : \A j \in 1 .. Len(rOrig[i]) : ~MentionsBase(rOrig[i][j])
ShebangThenBlock ==
  /\ Len(rDisk) >= 1 + Len(Injection)
  /\ IsShebang(rDisk[1])
  /\ SubSeq(rDisk, 2, 1 + Len(Injection)) = Injection

\* C27: whenever transform-docker-scripts injects the BUN_BASE_IMAGE block,
\* the written file starts with the shebang and the block follows it
\* immediately, whether the script had its shebang on the first line or had
\* none and got the default one.
C27_BlockRightAfterShebang ==
  (BlockInjected /\ FindShebang(rOrig, 1) \in {-1, 0}) => ShebangThenBlock

\* the same for scripts that had their shebang on the first line
C27_WithShebangOnFirstLine ==
  (BlockInjected /\ FindShebang(rOrig, 1) = 0) => ShebangThenBlock

\* C28: in transform-docker-compose the backup of a compose file exists
\* before the file is rewritten and is never overwritten: after any number
\* of runs it holds the content the compose file had before the first run.
C28_BackupHoldsFirstContent ==
  \A b \in ComposeBases :
    (cRun >= 1 /\ cFirst[<<b, 0>>] # NoCompose
       /\ (cDisk[<<b, 0>>] # cFirst[<<b, 0>>] \/ cDisk[<<b, 1>>] # NoCompose))
    => cDisk[<<b, 1>>] = cFirst[<<b, 0>>]

\* the same for docker-compose.yml alone
C28_ComposeYmlBackupKept ==
  (cRun >= 1 /\ cFirst[<<"docker-compose.yml", 0>>] # NoCompose
     /\ (cDisk[<<"docker-compose.yml", 0>>] # cFirst[<<"docker-compose.yml", 0>>]
           \/ cDisk[<<"docker-compose.yml", 1>>] # NoCompose))
  => cDisk[<<"docker-compose.yml", 1>>] = cFirst[<<"docker-compose.yml", 0>>]

\* the same for every compose file during the first run
C28_FirstRunBackupKept ==
  \A b \in ComposeBases :
    (cRun = 1 /\ cFirst[<<b, 0>>] # NoCompose
       /\ (cDisk[<<b, 0>>] # cFirst[<<b, 0>>] \/ cDisk[<<b, 1>>] # NoCompose))
    => cDisk[<<b, 1>>] = cFirst[<<b, 0>>]

\* positions of the force push in the commands run so far
PushRan ==
  {i \in 1 .. Len(sCodes) : SyncCommands(sScript)[i].cmd = ForcePush /\ sCodes[i] # Skipped}

\* C29: in every sync-upstream script the force push is run only if every
\* command before it that is not explicitly tolerated exited 0.
C29_PushOnlyAfterSuccess ==
  sScript \in SyncScripts =>
    \A i \in PushRan : \A k \in 1 .. i - 1 :
      SyncCommands(sScript)[k].tolerated \/ sCodes[k] \in {0, Skipped}

\* the same for the revisions that start with `set -e`
C29_PushOnlyAfterSuccessUnderErrexit ==
  (sScript \in SyncScripts /\ Errexit(sScript)) =>
    \A i \in PushRan : \A k \in 1 .. i - 1 :
      SyncCommands(sScript)[k].tolerated \/ sCodes[k] \in {0, Skipped}

\* the runs C30 is about: runConcurrent is reached and every task's promise
\* is fulfilled (bun-install-all's tasks always are; bun-build-all's are when
\* the task returns before or without spawning)
AllSettle ==
  /\ script \in {"install", "build"} /\ hasBun /\ N >= 1
  /\ \A u \in Units : kind[u] # "hang"
  /\ script = "build" => \A u \in Units : kind[u] = "skip" \/ (dryRun /\ kind[u] = "cmd")
Invoked(u) == ustate[u] # "new" \/ \E w \in DOMAIN wpc : wtask[w] = u
Finished(u) == ustate[u] \in {"awaited", "skipped"}

\* what holds in every state of such a run: the invoked tasks are exactly the
\* first idx ones, none is spawned twice or held by two workers, and main
\* is past the await only when every worker is done and every task finished
EachTaskOnce ==
  /\ \A u \in Units : Invoked(u) <=> u <= idx
  /\ \A u \in Units : spawns[u] <= 1
  /\ \A w1, w2 \in DOMAIN wpc : (w1 # w2 /\ wtask[w1] # 0) => wtask[w1] # wtask[w2]
  /\ mainpc = "exited" =>
       /\ \A w \in DOMAIN wpc : wpc[w] = "done"
       /\ \A u \in Units : Finished(u)

\* C30: when every task settles successfully, runConcurrent invokes each task
\* exactly once, never hands a task to two workers, is never stuck before its
\* promise resolves, and resolves only after the last task has finished,
\* for every N >= 1 and limit >= 1 (limit > N included).
C30_EveryTaskOnceAndResolves ==
  AllSettle => (EachTaskOnce /\ (mainpc # "exited" => ENABLED RunNext))
C30_Witness ==
  /\ AllSettle /\ script = "install" /\ ~dryRun
  /\ K > N /\ N >= 2
  /\ mainpc = "exited"
  /\ \A u \in Units : ustate[u] = "awaited" /\ spawns[u] = 1

\* the same with termination as a liveness property: under the event loop's
\* fairness the run reaches its exit
C30_ResolvesEventually ==
  AllSettle => ([]EachTaskOnce /\ <>(mainpc = "exited"))

====
